---------------------------- MODULE Spec2Model ----------------------------
(***************************************************************************)
(* A model of the DragonbornVoiceControl named-pipe client (PipeClient):   *)
(* the engine thread (ThreadMain), the producer setters, the consumer      *)
(* calls, Start/Stop, and the line decoder of ProcessIncoming.             *)
(*                                                                         *)
(* Strings are sequences of one-character tokens; CR and LF stand for the  *)
(* carriage-return and line-feed bytes.  An std::optional<T> is the empty  *)
(* sequence (nullopt) or a one-element sequence (a value).                 *)
(***************************************************************************)
EXTENDS Integers, Sequences, FiniteSets, TLC

(***************************************************************************)
(* Bounds of the model.                                                    *)
(***************************************************************************)
\* producer setter calls in one behaviour
MaxSets == 2
\* injected channel failures (failed/short write, failed peek, failed read)
MaxIoFails == 1
\* successful connects (CreateFileW succeeding) in one behaviour
MaxConnects == 2
\* failed connect attempts in one behaviour
MaxConnectFails == 1
\* Stop() calls in one behaviour
MaxStops == 1
\* writes of the companion (a line and the DBG line after it) in one behaviour
MaxPeerLines == 1
\* lines the companion may have in the pipe, unread
MaxInFlight == 1
\* lines pushed beyond the queue's capacity in the queue specification
MaxOverflow == 2
MaxStickySets == 3
\* changes of the listening state by the game (a focus gained or lost, the
\* dialogue menu opened or closed) in one behaviour
MaxGameChanges == 1
\* MuteVoiceLine calls in one behaviour
MaxMuteCalls == 3
\* turns of a mute timer's loop (the source's 1800 ms in steps of 15 and
\* 30 ms) in the model
MutePolls == 2
\* dialogue menu events (open, close) in one behaviour of the selection
\* specification
MaxMenuEvents == 3
\* RES responses the poll thread takes in one behaviour of the selection
\* specification
MaxSelectRequests == 2

(***************************************************************************)
(* Characters and strings.                                                 *)
(***************************************************************************)
CR == "<CR>"
LF == "<LF>"
Bar == "|"

None == <<>>
Some(v) == <<v>>
HasValue(o) == Len(o) = 1
Value(o) == o[1]

Digits == <<"0", "1", "2", "3", "4", "5", "6", "7", "8", "9">>

RECURSIVE to_string(_)
to_string(n) ==
    IF n < 10 THEN <<Digits[n + 1]>>
    ELSE to_string(n \div 10) \o <<Digits[(n % 10) + 1]>>

RECURSIVE Join(_)
\* concatenation of a sequence of strings
Join(ss) == IF ss = <<>> THEN <<>> ELSE Head(ss) \o Join(Tail(ss))

\* std::string::find(ch, from), 0-based; -1 stands for npos
RECURSIVE Find(_, _, _)
Find(s, ch, from) ==
    IF from >= Len(s) THEN -1
    ELSE IF s[from + 1] = ch THEN from
    ELSE Find(s, ch, from + 1)

\* std::string::substr(pos, n), 0-based
Substr(s, pos, n) ==
    LET m == IF pos + n > Len(s) THEN Len(s) - pos ELSE n
    IN  IF m <= 0 THEN <<>> ELSE SubSeq(s, pos + 1, pos + m)

\* std::string::substr(pos): the rest of the string
SubstrFrom(s, pos) == IF pos >= Len(s) THEN <<>> ELSE SubSeq(s, pos + 1, Len(s))

\* s.rfind(prefix, 0) == 0
StartsWith(s, prefix) ==
    /\ Len(s) >= Len(prefix)
    /\ SubSeq(s, 1, Len(prefix)) = prefix

BoolChar(b) == IF b THEN "1" ELSE "0"

(***************************************************************************)
(* Sanitization (PipeClient.cpp, SanitizeInPlace / SanitizeFavoriteField). *)
(***************************************************************************)
SanitizeInPlace(s) ==
    [i \in 1..Len(s) |-> IF s[i] = LF \/ s[i] = CR THEN " " ELSE s[i]]

\* a favorites field sanitizer that leaves the separator in
SanitizeFavoriteFieldKeepBar(s) == SanitizeInPlace(s)

SanitizeFavoriteField(s) ==
    LET t == SanitizeInPlace(s)
    IN  [i \in 1..Len(t) |-> IF t[i] = Bar THEN " " ELSE t[i]]

(***************************************************************************)
(* The wire protocol's outbound lines.                                     *)
(***************************************************************************)
S_LANG == <<"L", "A", "N", "G", "|">>
S_OPEN == <<"O", "P", "E", "N", "|">>
S_OPT == <<"O", "P", "T", "|">>
S_END == <<"E", "N", "D">>
S_CLOSE == <<"C", "L", "O", "S", "E">>
S_LISTEN == <<"L", "I", "S", "T", "E", "N", "|">>
S_LISTEN_SHOUTS == <<"L", "I", "S", "T", "E", "N", "|", "S", "H", "O", "U", "T", "S", "|">>
S_CFG == <<"C", "F", "G", "|">>
S_FAV_BEGIN == <<"F", "A", "V", "|", "B", "E", "G", "I", "N">>
S_FAV_END == <<"F", "A", "V", "|", "E", "N", "D">>
S_FAV_SHOUT == <<"F", "A", "V", "|", "S", "H", "O", "U", "T", "|">>
S_FAV_POWER == <<"F", "A", "V", "|", "P", "O", "W", "E", "R", "|">>
S_FAV_WEAPON == <<"F", "A", "V", "|", "W", "E", "A", "P", "O", "N", "|">>
S_FAV_SPELL == <<"F", "A", "V", "|", "S", "P", "E", "L", "L", "|">>
S_FAV_POTION == <<"F", "A", "V", "|", "P", "O", "T", "I", "O", "N", "|">>

\* the CFG toggles, in the order ThreadMain writes them
CfgOrder ==
    << <<"O", "P", "E", "N">>,
       <<"C", "L", "O", "S", "E">>,
       <<"S", "H", "O", "U", "T", "S">>,
       <<"D", "E", "B", "U", "G">>,
       <<"S", "A", "V", "E", "_", "W", "A", "V">>,
       <<"D", "I", "A", "L", "O", "G", "U", "E", "_", "S", "E", "L", "E", "C", "T">>,
       <<"W", "E", "A", "P", "O", "N", "S">>,
       <<"S", "P", "E", "L", "L", "S">>,
       <<"P", "O", "W", "E", "R", "S">>,
       <<"P", "O", "T", "I", "O", "N", "S">> >>

NumCfg == Len(CfgOrder)
CfgIds == 1..NumCfg
\* index of CFG|SHOUTS in CfgOrder (_desiredCfgVoiceHandle)
CfgShouts == 3

LangLine(code) == S_LANG \o code
CfgLine(c, b) == S_CFG \o CfgOrder[c] \o <<Bar, BoolChar(b)>>
ListenLine(on) == S_LISTEN \o <<BoolChar(on)>>
ListenShoutsLine(on) == S_LISTEN_SHOUTS \o <<BoolChar(on)>>
OptLine(s) == SanitizeInPlace(S_OPT \o s)
\* a batch with the options in the opposite order
OptionsLinesReversed(opts) ==
    << S_OPEN \o to_string(Len(opts)) >>
    \o [i \in 1..Len(opts) |-> OptLine(opts[Len(opts) + 1 - i])]
    \o << S_END >>

OptionsLines(opts) ==
    << S_OPEN \o to_string(Len(opts)) >>
    \o [i \in 1..Len(opts) |-> OptLine(opts[i])]
    \o << S_END >>


(***************************************************************************)
(* SendAllFavorites: the pre-rendered lines of a favorites batch.  A       *)
(* ShoutEntry is [plugin, formIdHex, name, editorID]; a PowerEntry or      *)
(* ItemEntry is [formIdHex, name].                                         *)
(***************************************************************************)
FavShoutLine(e) ==
    S_FAV_SHOUT \o SanitizeFavoriteField(e.plugin) \o <<Bar>>
    \o SanitizeInPlace(e.formIdHex) \o <<Bar>>
    \o SanitizeFavoriteField(e.name) \o <<Bar>>
    \o SanitizeFavoriteField(e.editorID)

FavItemLine(tag, e) ==
    tag \o SanitizeInPlace(e.formIdHex) \o <<Bar>> \o SanitizeFavoriteField(e.name)

\* a batch that renders the powers ahead of the shouts
FavoritesLinesPowersFirst(shouts, powers, weapons, spells, potions) ==
    << S_FAV_BEGIN >>
    \o [i \in 1..Len(powers) |-> FavItemLine(S_FAV_POWER, powers[i])]
    \o [i \in 1..Len(shouts) |-> FavShoutLine(shouts[i])]
    \o [i \in 1..Len(weapons) |-> FavItemLine(S_FAV_WEAPON, weapons[i])]
    \o [i \in 1..Len(spells) |-> FavItemLine(S_FAV_SPELL, spells[i])]
    \o [i \in 1..Len(potions) |-> FavItemLine(S_FAV_POTION, potions[i])]
    \o << S_FAV_END >>

FavoritesLines(shouts, powers, weapons, spells, potions) ==
    << S_FAV_BEGIN >>
    \o [i \in 1..Len(shouts) |-> FavShoutLine(shouts[i])]
    \o [i \in 1..Len(powers) |-> FavItemLine(S_FAV_POWER, powers[i])]
    \o [i \in 1..Len(weapons) |-> FavItemLine(S_FAV_WEAPON, weapons[i])]
    \o [i \in 1..Len(spells) |-> FavItemLine(S_FAV_SPELL, spells[i])]
    \o [i \in 1..Len(potions) |-> FavItemLine(S_FAV_POTION, potions[i])]
    \o << S_FAV_END >>

(***************************************************************************)
(* std::stoi and std::stof.  Each returns [ok, val]; ok = FALSE stands for *)
(* the exception (std::invalid_argument, std::out_of_range).  A float is   *)
(* kept in thousandths (three decimals).  Both skip leading blanks, take   *)
(* an optional sign and the longest numeric prefix, and ignore what        *)
(* follows it.  stof is modelled for plain decimal input: the score fields *)
(* of the model hold no exponent, hexadecimal, inf or nan forms.           *)
(***************************************************************************)
IntMax == 2147483647

IsDigit(c) == \E d \in 1..10 : Digits[d] = c
DigitVal(c) == (CHOOSE d \in 1..10 : Digits[d] = c) - 1

RECURSIVE SkipBlanks(_, _)
\* first position (1-based) at or after i that holds no blank
SkipBlanks(s, i) ==
    IF i <= Len(s) /\ s[i] = " " THEN SkipBlanks(s, i + 1) ELSE i

RECURSIVE DigitRun(_, _)
\* number of digits of s starting at position i (1-based)
DigitRun(s, i) ==
    IF i <= Len(s) /\ IsDigit(s[i]) THEN 1 + DigitRun(s, i + 1) ELSE 0

RECURSIVE DigitsValue(_, _, _)
\* value of the n digits of s starting at position i
DigitsValue(s, i, n) ==
    IF n = 0 THEN 0
    ELSE DigitsValue(s, i, n - 1) * 10 + DigitVal(s[i + n - 1])

RECURSIVE Magnitude(_, _, _)
\* value of the n digits of s starting at position i, or -1 when it is
\* above INT_MAX
Magnitude(s, i, n) ==
    IF n = 0 THEN 0
    ELSE LET h == Magnitude(s, i, n - 1)
             d == DigitVal(s[i + n - 1])
         IN  IF h = -1 \/ h > (IntMax - d) \div 10 THEN -1 ELSE h * 10 + d

\* the n digits are the magnitude of INT_MIN
IsIntMin(s, i, n) ==
    /\ n >= 1
    /\ Magnitude(s, i, n - 1) = IntMax \div 10
    /\ DigitVal(s[i + n - 1]) = (IntMax % 10) + 1

stoi(s) ==
    LET b == SkipBlanks(s, 1)
        signed == b <= Len(s) /\ (s[b] = "-" \/ s[b] = "+")
        neg == b <= Len(s) /\ s[b] = "-"
        d == IF signed THEN b + 1 ELSE b
        n == DigitRun(s, d)
        v == Magnitude(s, d, n)
    IN  IF n = 0 THEN [ok |-> FALSE, val |-> 0]
        ELSE IF neg /\ IsIntMin(s, d, n) THEN [ok |-> TRUE, val |-> (0 - IntMax) - 1]
        ELSE IF v = -1 THEN [ok |-> FALSE, val |-> 0]
        ELSE [ok |-> TRUE, val |-> IF neg THEN 0 - v ELSE v]

\* the first three decimals of the n digits of s starting at position i
Thousandths(s, i, n) ==
    (IF n >= 1 THEN 100 * DigitVal(s[i]) ELSE 0)
    + (IF n >= 2 THEN 10 * DigitVal(s[i + 1]) ELSE 0)
    + (IF n >= 3 THEN DigitVal(s[i + 2]) ELSE 0)

stof(s) ==
    LET b == SkipBlanks(s, 1)
        signed == b <= Len(s) /\ (s[b] = "-" \/ s[b] = "+")
        neg == b <= Len(s) /\ s[b] = "-"
        d == IF signed THEN b + 1 ELSE b
        n == DigitRun(s, d)
        dot == d + n <= Len(s) /\ s[d + n] = "."
        m == IF dot THEN DigitRun(s, d + n + 1) ELSE 0
        v == DigitsValue(s, d, n) * 1000
             + (IF dot THEN Thousandths(s, d + n + 1, m) ELSE 0)
    IN  IF n + m = 0 THEN [ok |-> FALSE, val |-> 0]
        ELSE [ok |-> TRUE, val |-> IF neg THEN 0 - v ELSE v]

(***************************************************************************)
(* PipeResponse and the decoding of one received line (ProcessIncoming).   *)
(***************************************************************************)
PipeResponse ==
    [ index |-> -1, score |-> 0, type |-> "", trigKind |-> <<>>,
      trigText |-> <<>>, shoutPlugin |-> <<>>, shoutFormID |-> <<>>,
      shoutPower |-> 0, powerFormID |-> <<>>, itemFormID |-> <<>> ]

P_RES == <<"R", "E", "S", "|">>
P_TRIG == <<"T", "R", "I", "G", "|">>
P_DBG == <<"D", "B", "G", "|">>
K_shout == <<"s", "h", "o", "u", "t">>
K_power == <<"p", "o", "w", "e", "r">>
K_weapon == <<"w", "e", "a", "p", "o", "n">>
K_spell == <<"s", "p", "e", "l", "l">>
K_potion == <<"p", "o", "t", "i", "o", "n">>
K_open == <<"o", "p", "e", "n">>

\* a RES branch whose handler leaves the index as parsed
DecodeResKeepIndex(line) ==
    LET resp == [PipeResponse EXCEPT !.type = "RES"]
        p1 == Find(line, Bar, 4)
    IN  IF p1 = -1 THEN resp
        ELSE LET i == stoi(Substr(line, 4, p1 - 4))
                 f == stof(SubstrFrom(line, p1 + 1))
             IN  IF i.ok /\ f.ok
                 THEN [resp EXCEPT !.index = i.val, !.score = f.val]
                 ELSE [resp EXCEPT !.index = IF i.ok THEN i.val ELSE -1,
                                   !.score = 0]

\* the RES branch: the try block and its catch (...)
DecodeRes(line) ==
    LET resp == [PipeResponse EXCEPT !.type = "RES"]
        p1 == Find(line, Bar, 4)
    IN  IF p1 = -1 THEN resp
        ELSE LET i == stoi(Substr(line, 4, p1 - 4))
                 f == stof(SubstrFrom(line, p1 + 1))
             IN  IF i.ok /\ f.ok
                 THEN [resp EXCEPT !.index = i.val, !.score = f.val]
                 ELSE [resp EXCEPT !.index = -1, !.score = 0]

\* TRIG|shout|plugin|formid|power|score|text
TrigShout(line, p1, resp) ==
    LET p2 == Find(line, Bar, p1 + 1)
        r2 == [resp EXCEPT !.shoutPlugin = Substr(line, p1 + 1, p2 - p1 - 1)]
        p3 == Find(line, Bar, p2 + 1)
        r3 == [r2 EXCEPT !.shoutFormID = Substr(line, p2 + 1, p3 - p2 - 1)]
        p4 == Find(line, Bar, p3 + 1)
        pw == stoi(Substr(line, p3 + 1, p4 - p3 - 1))
        r4 == [r3 EXCEPT !.shoutPower = pw.val]
        p5 == Find(line, Bar, p4 + 1)
        sc == stof(Substr(line, p4 + 1, p5 - p4 - 1))
    IN  IF p2 = -1 THEN resp
        ELSE IF p3 = -1 THEN r2
        ELSE IF p4 = -1 THEN r3
        ELSE IF ~pw.ok THEN [r3 EXCEPT !.score = 0]
        ELSE IF p5 = -1 THEN r4
        ELSE IF ~sc.ok THEN [r4 EXCEPT !.score = 0]
        ELSE [r4 EXCEPT !.score = sc.val, !.trigText = SubstrFrom(line, p5 + 1)]

\* the power branch: the text is taken after one more '|' past the score
TrigPower(line, p1, resp) ==
    LET p2 == Find(line, Bar, p1 + 1)
        r2 == [resp EXCEPT !.powerFormID = Substr(line, p1 + 1, p2 - p1 - 1)]
        p3 == Find(line, Bar, p2 + 1)
        sc == stof(Substr(line, p2 + 1, p3 - p2 - 1))
        r3 == [r2 EXCEPT !.score = sc.val]
        p4 == Find(line, Bar, p3 + 1)
    IN  IF p2 = -1 THEN resp
        ELSE IF p3 = -1 THEN r2
        ELSE IF ~sc.ok THEN [r2 EXCEPT !.score = 0]
        ELSE IF p4 = -1 THEN r3
        ELSE [r3 EXCEPT !.trigText = SubstrFrom(line, p4 + 1)]

\* an item branch whose failed score also loses the form ID
TrigItemLoseFormId(line, p1, resp) ==
    LET p2 == Find(line, Bar, p1 + 1)
        r2 == [resp EXCEPT !.itemFormID = Substr(line, p1 + 1, p2 - p1 - 1)]
        p3 == Find(line, Bar, p2 + 1)
        sc == stof(Substr(line, p2 + 1, p3 - p2 - 1))
    IN  IF p2 = -1 THEN resp
        ELSE IF p3 = -1 THEN r2
        ELSE IF ~sc.ok THEN [resp EXCEPT !.score = 0]
        ELSE [r2 EXCEPT !.score = sc.val, !.trigText = SubstrFrom(line, p3 + 1)]

\* TRIG|weapon|formid|score|text (also spell, potion)
TrigItem(line, p1, resp) ==
    LET p2 == Find(line, Bar, p1 + 1)
        r2 == [resp EXCEPT !.itemFormID = Substr(line, p1 + 1, p2 - p1 - 1)]
        p3 == Find(line, Bar, p2 + 1)
        sc == stof(Substr(line, p2 + 1, p3 - p2 - 1))
    IN  IF p2 = -1 THEN resp
        ELSE IF p3 = -1 THEN r2
        ELSE IF ~sc.ok THEN [r2 EXCEPT !.score = 0]
        ELSE [r2 EXCEPT !.score = sc.val, !.trigText = SubstrFrom(line, p3 + 1)]

\* any other kind: TRIG|kind|score|text
TrigOther(line, p1, resp) ==
    LET p2 == Find(line, Bar, p1 + 1)
        sc == stof(Substr(line, p1 + 1, p2 - p1 - 1))
    IN  IF p2 = -1 THEN resp
        ELSE IF ~sc.ok THEN [resp EXCEPT !.score = 0]
        ELSE [resp EXCEPT !.score = sc.val, !.trigText = SubstrFrom(line, p2 + 1)]

\* the TRIG branch: the try block and its catch (...)
DecodeTrig(line) ==
    LET resp == [PipeResponse EXCEPT !.type = "TRIG"]
        p1 == Find(line, Bar, 5)
        kind == Substr(line, 5, p1 - 5)
        r1 == [resp EXCEPT !.trigKind = kind]
    IN  IF p1 = -1 THEN resp
        ELSE IF kind = K_shout THEN TrigShout(line, p1, r1)
        ELSE IF kind = K_power THEN TrigPower(line, p1, r1)
        ELSE IF kind = K_weapon \/ kind = K_spell \/ kind = K_potion
             THEN TrigItem(line, p1, r1)
        ELSE TrigOther(line, p1, r1)

\* a Debug message whose text ends at the next '|'
DecodeDbgFirstField(line) ==
    [PipeResponse EXCEPT
        !.type = "DBG",
        !.trigText = IF Find(line, Bar, 4) = -1 THEN SubstrFrom(line, 4)
                     ELSE Substr(line, 4, Find(line, Bar, 4) - 4)]

DecodeDbg(line) ==
    [PipeResponse EXCEPT !.type = "DBG", !.trigText = SubstrFrom(line, 4)]

\* the classification of one line: the message to enqueue, or nullopt
DecodeLine(line) ==
    IF StartsWith(line, P_RES) THEN Some(DecodeRes(line))
    ELSE IF StartsWith(line, P_TRIG) THEN Some(DecodeTrig(line))
    ELSE IF StartsWith(line, P_DBG) THEN Some(DecodeDbg(line))
    ELSE None

\* _responses.push_back(resp); if (_responses.size() > 128) pop_front();
RespCap == 128
\* a queue that refuses the new message when it is full
PushResponseDropNewest(q, resp) ==
    IF Len(q) >= 128 THEN q ELSE Append(q, resp)

PushResponse(q, resp) ==
    LET q1 == Append(q, resp)
    IN  IF Len(q1) > RespCap THEN Tail(q1) ELSE q1

(***************************************************************************)
(* The state.                                                              *)
(***************************************************************************)
VARIABLES
    \* PipeClient's fields
    running, connected, pipe, recvBuf,
    pendingOptions, pendingFavorites, pendingClose, pendingListen,
    pendingListenVoiceHandle,
    desiredGameLang, desiredCfg, lastSentGameLang, lastSentCfg,
    responses, connEvent,
    \* _sendMutex: "free", or "engine" while ThreadMain holds it
    sendMutex,
    \* the engine thread: its position in ThreadMain, and its locals
    pc, wroteAny, txPos,
    \* the thread that calls Start() and Stop(): "idle", or "joining" in Stop()
    ctl,
    \* the operating system: the open pipe handles, and the bytes the
    \* companion has written that the client has not read yet
    chanOpen, inbound,
    \* what has been observed: the lines written on the current connection,
    \* how many of them before the current service cycle, the service
    \* cycles begun on the connection (0, 1, 2 = two or more), how the last
    \* channel call ended, the lines the companion has written, the counts
    \* of calls made, and the record of the one-shot commands; consumer is
    \* what the game thread got from its Consume calls
    wire, cycleStart, cycleNo, lastFail, peerLog, consumer, budget, shot,
    \* the game plugin beside PipeClient (Runtime.cpp, Dialogue.cpp,
    \* Plugin.cpp): its flags, its poll thread's position and its queued tasks
    rt,
    \* the threads that have entered ThreadMain and not returned from it,
    \* and the values written to the connection event cell, in order
    threads, evLog

clientVars == <<running, connected, pipe, recvBuf>>
mailboxVars ==
    <<pendingOptions, pendingFavorites, pendingClose, pendingListen,
      pendingListenVoiceHandle>>
desiredVars == <<desiredGameLang, desiredCfg>>
lastSentVars == <<lastSentGameLang, lastSentCfg>>
engineVars == <<pc, wroteAny, txPos>>
obsVars == <<wire, cycleStart, cycleNo, lastFail, peerLog, consumer>>

vars ==
    <<running, connected, pipe, recvBuf,
      pendingOptions, pendingFavorites, pendingClose, pendingListen,
      pendingListenVoiceHandle,
      desiredGameLang, desiredCfg, lastSentGameLang, lastSentCfg,
      responses, connEvent, sendMutex, pc, wroteAny, txPos, ctl,
      chanOpen, inbound, wire, cycleStart, cycleNo, lastFail, peerLog, consumer, budget,
      shot, rt, threads, evLog>>

\* the one-shot commands and listen toggles of the Outbound Mailbox
OneShots == {"options", "close", "favorites", "listen", "listenShouts"}

\* the lines a one-shot command is written as
ShotLines(k, v) ==
    CASE k = "options" -> OptionsLines(v)
      [] k = "close" -> << S_CLOSE >>
      [] k = "favorites" -> v
      [] k = "listen" -> << ListenLine(v) >>
      [] k = "listenShouts" -> << ListenShoutsLine(v) >>

\* the mute window (VoiceHandle.cpp): g_muteShoutVoiceWindow,
\* g_muteShoutVoiceWindowGen, whether MuteVoiceLine is between its two
\* stores, and the detached timer threads in the order of their start
MuteInit == [window |-> FALSE, gen |-> 0, opening |-> FALSE, timers |-> <<>>]

\* the dialogue selection (Dialogue.cpp): g_selectInFlight, the poll
\* thread's position in the handling of a RES response, and the responses
\* it has taken and skipped
SelectInit == [inFlight |-> FALSE, poll |-> "idle", requests |-> 0, skipped |-> 0]

\* the game plugin's state after load: g_listenModeActive and
\* g_hadFocusLastPoll (Runtime.cpp), g_dialogueOpen (Dialogue.cpp),
\* g_gameLoaded (VoiceHandle.cpp), g_enableVoiceOpenEnabled and
\* g_enableVoiceShoutsEnabled (Settings.cpp); the poll thread is not
\* started, no task is queued; changes counts the handlers' calls that a
\* change of focus or of the dialogue menu caused
RtInit ==
    [listenModeActive |-> FALSE, hadFocusLastPoll |-> FALSE,
     dialogueOpen |-> FALSE, gameLoaded |-> FALSE,
     voiceOpen |-> TRUE, shouts |-> TRUE,
     pc |-> "off", tasks |-> <<>>, changes |-> 0,
     mute |-> MuteInit, select |-> SelectInit]

\* the state after construction (PipeClient.h, the member initializers)
Init ==
    /\ running = FALSE
    /\ connected = FALSE
    /\ pipe = 0
    /\ recvBuf = <<>>
    /\ pendingOptions = None
    /\ pendingFavorites = None
    /\ pendingClose = FALSE
    /\ pendingListen = None
    /\ pendingListenVoiceHandle = None
    /\ desiredGameLang = None
    /\ desiredCfg = [c \in CfgIds |-> None]
    /\ lastSentGameLang = None
    /\ lastSentCfg = [c \in CfgIds |-> None]
    /\ responses = <<>>
    /\ connEvent = None
    /\ sendMutex = "free"
    /\ pc = "off"
    /\ wroteAny = FALSE
    /\ txPos = 1
    /\ ctl = "idle"
    /\ chanOpen = {}
    /\ inbound = <<>>
    /\ wire = <<>>
    /\ cycleStart = 0
    /\ cycleNo = 0
    /\ lastFail = ""
    /\ peerLog = <<>>
    /\ consumer = [event |-> <<>>, eventCalls |-> 0, resp |-> <<>>,
                   taken |-> <<>>]
    /\ budget = [sets |-> 0, ioFails |-> 0, connects |-> 0, connectFails |-> 0,
                 stops |-> 0, peer |-> 0]
    /\ shot = [k \in OneShots |->
                 [nSet |-> 0, nTx |-> 0, nCoalesced |-> 0, sets |-> <<>>,
                  lastTx |-> None]]
    /\ rt = RtInit
    /\ threads = 0
    /\ evLog = <<>>

(***************************************************************************)
(* The producers' setters.  Each takes _sendMutex for the assignment, so   *)
(* it can run only while the engine does not hold it.                      *)
(***************************************************************************)
\* a setter that does not wait for _sendMutex
CanSetNoLock == budget.sets < MaxSets

CanSet == sendMutex = "free" /\ budget.sets < MaxSets
CountSet == budget' = [budget EXCEPT !.sets = @ + 1]

\* the record of a setter call for one-shot k with value v
NoteSet(k, v) ==
    shot' = [shot EXCEPT ![k].nSet = @ + 1,
                         ![k].nCoalesced = IF shot[k].sets = <<>> THEN @ ELSE @ + 1,
                         ![k].sets = Append(@, v)]

\* a setter that keeps a value already pending
SendOptionsFirstWins(options) ==
    /\ CanSet
    /\ pendingOptions' = IF HasValue(pendingOptions) THEN pendingOptions
                         ELSE Some(options)
    /\ NoteSet("options", options)
    /\ CountSet
    /\ UNCHANGED <<clientVars, pendingFavorites, pendingClose, pendingListen,
                   pendingListenVoiceHandle, desiredVars, lastSentVars,
                   responses, connEvent, sendMutex, engineVars, ctl, chanOpen,
                   inbound, obsVars, rt, threads, evLog>>

SendOptions(options) ==
    /\ CanSet
    /\ pendingOptions' = Some(options)
    /\ NoteSet("options", options)
    /\ CountSet
    /\ UNCHANGED <<clientVars, pendingFavorites, pendingClose, pendingListen,
                   pendingListenVoiceHandle, desiredVars, lastSentVars,
                   responses, connEvent, sendMutex, engineVars, ctl, chanOpen,
                   inbound, obsVars, rt, threads, evLog>>

SendClose ==
    /\ CanSet
    /\ pendingClose' = TRUE
    /\ NoteSet("close", TRUE)
    /\ CountSet
    /\ UNCHANGED <<clientVars, pendingOptions, pendingFavorites, pendingListen,
                   pendingListenVoiceHandle, desiredVars, lastSentVars,
                   responses, connEvent, sendMutex, engineVars, ctl, chanOpen,
                   inbound, obsVars, rt, threads, evLog>>

SendListen(on) ==
    /\ CanSet
    /\ pendingListen' = Some(on)
    /\ NoteSet("listen", on)
    /\ CountSet
    /\ UNCHANGED <<clientVars, pendingOptions, pendingFavorites, pendingClose,
                   pendingListenVoiceHandle, desiredVars, lastSentVars,
                   responses, connEvent, sendMutex, engineVars, ctl, chanOpen,
                   inbound, obsVars, rt, threads, evLog>>

SendListenShouts(on) ==
    /\ CanSet
    /\ pendingListenVoiceHandle' = Some(on)
    /\ NoteSet("listenShouts", on)
    /\ CountSet
    /\ UNCHANGED <<clientVars, pendingOptions, pendingFavorites, pendingClose,
                   pendingListen, desiredVars, lastSentVars,
                   responses, connEvent, sendMutex, engineVars, ctl, chanOpen,
                   inbound, obsVars, rt, threads, evLog>>

\* an empty code (after sanitization) is ignored
SendGameLanguage(langCode) ==
    /\ CanSet
    /\ desiredGameLang' =
          IF SanitizeInPlace(langCode) = <<>> THEN desiredGameLang
          ELSE Some(SanitizeInPlace(langCode))
    /\ CountSet
    /\ UNCHANGED <<clientVars, mailboxVars, desiredCfg, lastSentVars,
                   responses, connEvent, sendMutex, engineVars, ctl, chanOpen,
                   inbound, obsVars, rt, threads, evLog, shot>>

\* SendConfigOpen .. SendConfigPotions: c is the toggle's place in CfgOrder
SendConfig(c, enabled) ==
    /\ CanSet
    /\ desiredCfg' = [desiredCfg EXCEPT ![c] = Some(enabled)]
    /\ CountSet
    /\ UNCHANGED <<clientVars, mailboxVars, desiredGameLang, lastSentVars,
                   responses, connEvent, sendMutex, engineVars, ctl, chanOpen,
                   inbound, obsVars, rt, threads, evLog, shot>>

SendAllFavorites(shouts, powers, weapons, spells, potions) ==
    LET lines == FavoritesLines(shouts, powers, weapons, spells, potions)
    IN  /\ CanSet
        /\ pendingFavorites' = Some(lines)
        /\ NoteSet("favorites", lines)
        /\ CountSet
        /\ UNCHANGED <<clientVars, pendingOptions, pendingClose, pendingListen,
                       pendingListenVoiceHandle, desiredVars, lastSentVars,
                       responses, connEvent, sendMutex, engineVars, ctl,
                       chanOpen, inbound, obsVars, rt, threads, evLog>>

(***************************************************************************)
(* ThreadMain's transmit block (the scope of lock_guard lg(_sendMutex)).   *)
(* Its items, in the order of the source text; an item is one "if" of the  *)
(* block.  One step of the model handles the next due item: the lines it   *)
(* writes, and what it assigns.                                            *)
(***************************************************************************)
\* the items with the shout-listen toggle ahead of the CFG toggles
BlockOrderListenFirst ==
    << [kind |-> "lang", cfg |-> 0],
       [kind |-> "options", cfg |-> 0],
       [kind |-> "close", cfg |-> 0],
       [kind |-> "favorites", cfg |-> 0],
       [kind |-> "listen", cfg |-> 0],
       [kind |-> "listenShouts", cfg |-> 0] >>
    \o [c \in CfgIds |-> [kind |-> "cfg", cfg |-> c]]

\* the items with the CFG toggles ahead of every one-shot command
BlockOrderCfgEarly ==
    << [kind |-> "lang", cfg |-> 0] >>
    \o [c \in CfgIds |-> [kind |-> "cfg", cfg |-> c]]
    \o << [kind |-> "options", cfg |-> 0],
          [kind |-> "close", cfg |-> 0],
          [kind |-> "favorites", cfg |-> 0],
          [kind |-> "listen", cfg |-> 0],
          [kind |-> "listenShouts", cfg |-> 0] >>

\* the items with the close signal ahead of the options batch and the CFG
\* toggles in the opposite order
BlockOrderCloseFirst ==
    << [kind |-> "lang", cfg |-> 0],
       [kind |-> "close", cfg |-> 0],
       [kind |-> "options", cfg |-> 0],
       [kind |-> "favorites", cfg |-> 0],
       [kind |-> "listen", cfg |-> 0] >>
    \o [c \in CfgIds |-> [kind |-> "cfg", cfg |-> NumCfg + 1 - c]]
    \o << [kind |-> "listenShouts", cfg |-> 0] >>

BlockOrder ==
    << [kind |-> "lang", cfg |-> 0],
       [kind |-> "options", cfg |-> 0],
       [kind |-> "close", cfg |-> 0],
       [kind |-> "favorites", cfg |-> 0],
       [kind |-> "listen", cfg |-> 0] >>
    \o [c \in CfgIds |-> [kind |-> "cfg", cfg |-> c]]
    \o << [kind |-> "listenShouts", cfg |-> 0] >>

\* a toggle that is due whenever it has a desired value
StickyDueAlways(desired, lastSent) == HasValue(desired)

\* a toggle that is due only while nothing was sent on the connection
StickyDueUnsentOnly(desired, lastSent) == HasValue(desired) /\ ~HasValue(lastSent)

\* desired.has_value() && (!lastSent.has_value() || lastSent.value() != desired)
StickyDue(desired, lastSent) == HasValue(desired) /\ lastSent # desired

\* the condition of an item's "if" (for a sticky toggle, of both)
Due(b) ==
    CASE b.kind = "lang" -> StickyDue(desiredGameLang, lastSentGameLang)
      [] b.kind = "options" -> HasValue(pendingOptions)
      [] b.kind = "close" -> pendingClose
      [] b.kind = "favorites" -> HasValue(pendingFavorites)
      [] b.kind = "listen" -> HasValue(pendingListen)
      [] b.kind = "cfg" -> StickyDue(desiredCfg[b.cfg], lastSentCfg[b.cfg])
      [] b.kind = "listenShouts" -> HasValue(pendingListenVoiceHandle)

\* the lines a due item passes to WriteLine, in order
Lines(b) ==
    CASE b.kind = "lang" -> << LangLine(Value(desiredGameLang)) >>
      [] b.kind = "options" -> OptionsLines(Value(pendingOptions))
      [] b.kind = "close" -> << S_CLOSE >>
      [] b.kind = "favorites" -> Value(pendingFavorites)
      [] b.kind = "listen" -> << ListenLine(Value(pendingListen)) >>
      [] b.kind = "cfg" -> << CfgLine(b.cfg, Value(desiredCfg[b.cfg])) >>
      [] b.kind = "listenShouts" ->
            << ListenShoutsLine(Value(pendingListenVoiceHandle)) >>

\* the first due item at or after place from, or 0
NextDue(from) ==
    LET S == {i \in from..Len(BlockOrder) : Due(BlockOrder[i])}
    IN  IF S = {} THEN 0 ELSE CHOOSE i \in S : \A j \in S : i <= j

\* the assignments of an item, the shout-listen toggle left pending
AfterItemKeepListenShouts(b, ok) ==
    /\ pendingOptions' = IF b.kind = "options" THEN None ELSE pendingOptions
    /\ pendingFavorites' = IF b.kind = "favorites" THEN None ELSE pendingFavorites
    /\ pendingClose' = IF b.kind = "close" /\ ok THEN FALSE ELSE pendingClose
    /\ pendingListen' = IF b.kind = "listen" /\ ok THEN None ELSE pendingListen
    /\ pendingListenVoiceHandle' = pendingListenVoiceHandle
    /\ lastSentGameLang' =
          IF b.kind = "lang" /\ ok THEN desiredGameLang ELSE lastSentGameLang
    /\ lastSentCfg' =
          IF b.kind = "cfg" /\ ok
          THEN [lastSentCfg EXCEPT ![b.cfg] = desiredCfg[b.cfg]]
          ELSE lastSentCfg

\* the assignments of item b: a batch is reset before its writes, the
\* other items are cleared or recorded after their write succeeded (ok)
AfterItem(b, ok) ==
    /\ pendingOptions' = IF b.kind = "options" THEN None ELSE pendingOptions
    /\ pendingFavorites' = IF b.kind = "favorites" THEN None ELSE pendingFavorites
    /\ pendingClose' = IF b.kind = "close" /\ ok THEN FALSE ELSE pendingClose
    /\ pendingListen' = IF b.kind = "listen" /\ ok THEN None ELSE pendingListen
    /\ pendingListenVoiceHandle' =
          IF b.kind = "listenShouts" /\ ok THEN None
          ELSE pendingListenVoiceHandle
    /\ lastSentGameLang' =
          IF b.kind = "lang" /\ ok THEN desiredGameLang ELSE lastSentGameLang
    /\ lastSentCfg' =
          IF b.kind = "cfg" /\ ok
          THEN [lastSentCfg EXCEPT ![b.cfg] = desiredCfg[b.cfg]]
          ELSE lastSentCfg

\* the record of item b having written the lines sent (all of them: ok)
NoteTx(b, sent, ok) ==
    IF b.kind \notin OneShots THEN UNCHANGED shot
    ELSE LET k == b.kind
             consumed == ok \/ k = "options" \/ k = "favorites"
             want == IF shot[k].sets = <<>> THEN <<>>
                     ELSE ShotLines(k, shot[k].sets[Len(shot[k].sets)])
         IN  shot' = [shot EXCEPT
                 ![k].nTx = IF sent = <<>> THEN @ ELSE @ + 1,
                 ![k].lastTx = IF sent = <<>> THEN @
                               ELSE Some([lines |-> sent, want |-> want,
                                          ok |-> ok]),
                 ![k].sets = IF consumed THEN <<>> ELSE @]

\* WriteLine's first test: if (!_connected || !_pipe) return false;
CanWrite == connected /\ pipe # 0

WriteFailKinds == {"write_failed", "short_write"}

\* line 494: the engine takes _sendMutex and enters the transmit block
CycleBegin ==
    /\ pc = "cycle"
    /\ sendMutex = "free"
    /\ sendMutex' = "engine"
    /\ pc' = "tx"
    /\ wroteAny' = FALSE
    /\ txPos' = 1
    /\ cycleStart' = Len(wire)
    /\ cycleNo' = IF cycleNo >= 2 THEN 2 ELSE cycleNo + 1
    /\ UNCHANGED <<clientVars, mailboxVars, desiredVars, lastSentVars,
                   responses, connEvent, ctl, chanOpen, inbound, wire,
                   lastFail, peerLog, consumer, rt, threads, evLog, budget, shot>>

\* the next due item, every WriteLine of it succeeding
TxWrite ==
    /\ pc = "tx"
    /\ NextDue(txPos) # 0
    /\ CanWrite
    /\ LET i == NextDue(txPos)
           b == BlockOrder[i]
       IN  /\ wire' = wire \o Lines(b)
           /\ AfterItem(b, TRUE)
           /\ NoteTx(b, Lines(b), TRUE)
           /\ txPos' = i + 1
    /\ wroteAny' = TRUE
    /\ UNCHANGED <<clientVars, desiredVars, responses, connEvent, sendMutex,
                   pc, ctl, chanOpen, inbound, cycleStart, cycleNo, lastFail,
                   peerLog, consumer, rt, threads, evLog, budget>>

\* a failed write after which the block goes on with the next item
TxFailGoesOn ==
    /\ pc = "tx"
    /\ NextDue(txPos) # 0
    /\ CanWrite
    /\ budget.ioFails < MaxIoFails
    /\ LET i == NextDue(txPos)
           b == BlockOrder[i]
       IN  \E n \in 0..(Len(Lines(b)) - 1) :
              /\ wire' = wire \o SubSeq(Lines(b), 1, n)
              /\ AfterItem(b, FALSE)
              /\ NoteTx(b, SubSeq(Lines(b), 1, n), FALSE)
              /\ txPos' = i + 1
    /\ \E kind \in WriteFailKinds : lastFail' = kind
    /\ budget' = [budget EXCEPT !.ioFails = @ + 1]
    /\ UNCHANGED <<clientVars, desiredVars, responses, connEvent, wroteAny,
                   sendMutex, pc, ctl, chanOpen, inbound, cycleStart, cycleNo,
                   peerLog, consumer, rt, threads, evLog>>

\* a failed write that jumps to the teardown with _sendMutex still held
TxFailKeepsLock ==
    /\ pc = "tx"
    /\ NextDue(txPos) # 0
    /\ CanWrite
    /\ budget.ioFails < MaxIoFails
    /\ LET i == NextDue(txPos)
           b == BlockOrder[i]
       IN  \E n \in 0..(Len(Lines(b)) - 1) :
              /\ wire' = wire \o SubSeq(Lines(b), 1, n)
              /\ AfterItem(b, FALSE)
              /\ NoteTx(b, SubSeq(Lines(b), 1, n), FALSE)
              /\ txPos' = i
    /\ \E kind \in WriteFailKinds : lastFail' = kind
    /\ budget' = [budget EXCEPT !.ioFails = @ + 1]
    /\ pc' = "disconnect"
    /\ UNCHANGED <<clientVars, desiredVars, responses, connEvent, wroteAny,
                   sendMutex, ctl, chanOpen, inbound, cycleStart, cycleNo,
                   peerLog, consumer, rt, threads, evLog>>

\* the next due item, its WriteLine number n + 1 failing (WriteFile fails
\* or writes short): goto disconnect, which leaves the lock's scope
TxFail ==
    /\ pc = "tx"
    /\ NextDue(txPos) # 0
    /\ CanWrite
    /\ budget.ioFails < MaxIoFails
    /\ LET i == NextDue(txPos)
           b == BlockOrder[i]
       IN  \E n \in 0..(Len(Lines(b)) - 1) :
              /\ wire' = wire \o SubSeq(Lines(b), 1, n)
              /\ AfterItem(b, FALSE)
              /\ NoteTx(b, SubSeq(Lines(b), 1, n), FALSE)
              /\ txPos' = i
    /\ \E kind \in WriteFailKinds : lastFail' = kind
    /\ budget' = [budget EXCEPT !.ioFails = @ + 1]
    /\ sendMutex' = "free"
    /\ pc' = "disconnect"
    /\ UNCHANGED <<clientVars, desiredVars, responses, connEvent, wroteAny,
                   ctl, chanOpen, inbound, cycleStart, cycleNo, peerLog, consumer, rt, threads, evLog>>

\* the next due item, WriteLine returning false at once: not connected
TxNotConnected ==
    /\ pc = "tx"
    /\ NextDue(txPos) # 0
    /\ ~CanWrite
    /\ LET i == NextDue(txPos)
           b == BlockOrder[i]
       IN  /\ AfterItem(b, FALSE)
           /\ NoteTx(b, <<>>, FALSE)
           /\ txPos' = i
    /\ lastFail' = "not_connected"
    /\ sendMutex' = "free"
    /\ pc' = "disconnect"
    /\ UNCHANGED <<clientVars, desiredVars, responses, connEvent, wroteAny,
                   ctl, chanOpen, inbound, wire, cycleStart, cycleNo, peerLog, consumer, rt, threads, evLog,
                   budget>>

\* no item is due any more: the block ends, the lock is released
TxDone ==
    /\ pc = "tx"
    /\ NextDue(txPos) = 0
    /\ sendMutex' = "free"
    /\ pc' = "recv"
    /\ UNCHANGED <<clientVars, mailboxVars, desiredVars, lastSentVars,
                   responses, connEvent, wroteAny, txPos, ctl, chanOpen,
                   inbound, obsVars, rt, threads, evLog, budget, shot>>

(***************************************************************************)
(* HandleDisconnect, and the rest of ThreadMain's loop.                    *)
(***************************************************************************)
\* a teardown that leaves the lastSent values as they are
HandleDisconnectKeepLastSent ==
    IF ~connected /\ pipe = 0
    THEN UNCHANGED <<pipe, chanOpen, connected, lastSentGameLang, lastSentCfg,
                     connEvent, inbound, evLog>>
    ELSE /\ pipe' = 0
         /\ chanOpen' = chanOpen \ {pipe}
         /\ connected' = FALSE
         /\ UNCHANGED <<lastSentGameLang, lastSentCfg>>
         /\ connEvent' = Some(FALSE)
         /\ evLog' = Append(evLog, FALSE)
         /\ inbound' = IF pipe = 0 THEN inbound ELSE <<>>

\* a teardown whose Disconnected event does not replace an event that is
\* still in the cell
HandleDisconnectFirstWins ==
    IF ~connected /\ pipe = 0
    THEN UNCHANGED <<pipe, chanOpen, connected, lastSentGameLang, lastSentCfg,
                     connEvent, inbound, evLog>>
    ELSE /\ pipe' = 0
         /\ chanOpen' = chanOpen \ {pipe}
         /\ connected' = FALSE
         /\ lastSentGameLang' = None
         /\ lastSentCfg' = [c \in CfgIds |-> None]
         /\ connEvent' = IF connEvent = None THEN Some(FALSE) ELSE connEvent
         /\ evLog' = IF connEvent = None THEN Append(evLog, FALSE) ELSE evLog
         /\ inbound' = IF pipe = 0 THEN inbound ELSE <<>>

\* HandleDisconnect(): nothing when already disconnected; else the handle
\* is closed and nulled, the flag cleared, every lastSent reset, and a
\* Disconnected event written.  The closed pipe's unread bytes are gone.
HandleDisconnect ==
    IF ~connected /\ pipe = 0
    THEN UNCHANGED <<pipe, chanOpen, connected, lastSentGameLang, lastSentCfg,
                     connEvent, inbound, evLog>>
    ELSE /\ pipe' = 0
         /\ chanOpen' = chanOpen \ {pipe}
         /\ connected' = FALSE
         /\ lastSentGameLang' = None
         /\ lastSentCfg' = [c \in CfgIds |-> None]
         /\ connEvent' = Some(FALSE)
         /\ evLog' = Append(evLog, FALSE)
         /\ inbound' = IF pipe = 0 THEN inbound ELSE <<>>

\* while (_running.load()): the flag is false, the thread function returns
LoopExit ==
    /\ pc = "top"
    /\ ~running
    /\ pc' = "exited"
    /\ threads' = threads - 1
    /\ UNCHANGED <<clientVars, mailboxVars, desiredVars, lastSentVars,
                   responses, connEvent, sendMutex, wroteAny, txPos, ctl,
                   chanOpen, inbound, obsVars, rt, evLog, budget, shot>>

\* connected already: on to the service cycle
LoopServe ==
    /\ pc = "top"
    /\ running
    /\ connected
    /\ pc' = "cycle"
    /\ UNCHANGED <<clientVars, mailboxVars, desiredVars, lastSentVars,
                   responses, connEvent, sendMutex, wroteAny, txPos, ctl,
                   chanOpen, inbound, obsVars, rt, threads, evLog, budget, shot>>

\* CreateFileW returns a handle: the companion accepted a new connection
ConnectOk ==
    /\ pc = "top"
    /\ running
    /\ ~connected
    /\ budget.connects < MaxConnects
    /\ budget' = [budget EXCEPT !.connects = @ + 1]
    /\ chanOpen' = chanOpen \cup {budget.connects + 1}
    /\ pc' = "publish"
    /\ UNCHANGED <<clientVars, mailboxVars, desiredVars, lastSentVars,
                   responses, connEvent, sendMutex, wroteAny, txPos, ctl,
                   inbound, obsVars, rt, threads, evLog, shot>>

\* CreateFileW returns INVALID_HANDLE_VALUE: sleep a second and retry
ConnectFail ==
    /\ pc = "top"
    /\ running
    /\ ~connected
    /\ budget.connectFails < MaxConnectFails
    /\ budget' = [budget EXCEPT !.connectFails = @ + 1]
    /\ pc' = "retry_sleep"
    /\ UNCHANGED <<clientVars, mailboxVars, desiredVars, lastSentVars,
                   responses, connEvent, sendMutex, wroteAny, txPos, ctl,
                   chanOpen, inbound, obsVars, rt, threads, evLog, shot>>

\* the sleep of line 487 is over: continue
RetrySleep ==
    /\ pc = "retry_sleep"
    /\ pc' = "top"
    /\ UNCHANGED <<clientVars, mailboxVars, desiredVars, lastSentVars,
                   responses, connEvent, sendMutex, wroteAny, txPos, ctl,
                   chanOpen, inbound, obsVars, rt, threads, evLog, budget, shot>>

\* a connect that starts the connection with an empty mailbox
PublishFresh ==
    /\ pc = "publish"
    /\ pipe' = budget.connects
    /\ connected' = TRUE
    /\ connEvent' = Some(TRUE)
    /\ evLog' = Append(evLog, TRUE)
    /\ inbound' = <<>>
    /\ wire' = <<>>
    /\ cycleStart' = 0
    /\ cycleNo' = 0
    /\ pc' = "cycle"
    /\ pendingOptions' = None
    /\ pendingFavorites' = None
    /\ pendingClose' = FALSE
    /\ pendingListen' = None
    /\ pendingListenVoiceHandle' = None
    /\ UNCHANGED <<running, recvBuf, desiredVars, lastSentVars,
                   responses, sendMutex, wroteAny, txPos, ctl, chanOpen,
                   lastFail, peerLog, consumer, rt, threads, budget, shot>>

\* lines 477-483: _pipe = pipe; _connected = true; _connEvent = true;
\* the new connection has nothing written or readable yet
Publish ==
    /\ pc = "publish"
    /\ pipe' = budget.connects
    /\ connected' = TRUE
    /\ connEvent' = Some(TRUE)
    /\ evLog' = Append(evLog, TRUE)
    /\ inbound' = <<>>
    /\ wire' = <<>>
    /\ cycleStart' = 0
    /\ cycleNo' = 0
    /\ pc' = "cycle"
    /\ UNCHANGED <<running, recvBuf, mailboxVars, desiredVars, lastSentVars,
                   responses, sendMutex, wroteAny, txPos, ctl, chanOpen,
                   lastFail, peerLog, consumer, rt, threads, budget, shot>>

\* the label disconnect: HandleDisconnect(), then the sleep of line 693
Disconnect ==
    /\ pc = "disconnect"
    /\ sendMutex = "free"
    /\ HandleDisconnect
    /\ pc' = "backoff"
    /\ lastFail' = ""
    /\ UNCHANGED <<running, recvBuf, mailboxVars, desiredVars, responses,
                   sendMutex, wroteAny, txPos, ctl, wire, cycleStart, cycleNo,
                   peerLog, consumer, rt, threads, budget, shot>>

\* the sleep of line 693 is over: back to the loop's test
Backoff ==
    /\ pc = "backoff"
    /\ pc' = "top"
    /\ UNCHANGED <<clientVars, mailboxVars, desiredVars, lastSentVars,
                   responses, connEvent, sendMutex, wroteAny, txPos, ctl,
                   chanOpen, inbound, obsVars, rt, threads, evLog, budget, shot>>

\* after ProcessIncoming(): if (!wroteAny) sleep 15 ms; continue
AfterRecv == IF wroteAny THEN "top" ELSE "idle"

\* the sleep of line 686 is over
Idle ==
    /\ pc = "idle"
    /\ pc' = "top"
    /\ UNCHANGED <<clientVars, mailboxVars, desiredVars, lastSentVars,
                   responses, connEvent, sendMutex, wroteAny, txPos, ctl,
                   chanOpen, inbound, obsVars, rt, threads, evLog, budget, shot>>

(***************************************************************************)
(* ProcessIncoming.                                                        *)
(***************************************************************************)
\* if (!_connected || !_pipe) return;
RecvNotConnected ==
    /\ pc = "recv"
    /\ ~CanWrite
    /\ pc' = AfterRecv
    /\ UNCHANGED <<clientVars, mailboxVars, desiredVars, lastSentVars,
                   responses, connEvent, sendMutex, wroteAny, txPos, ctl,
                   chanOpen, inbound, obsVars, rt, threads, evLog, budget, shot>>

\* PeekNamedPipe reports no byte available: return
RecvEmpty ==
    /\ pc = "recv"
    /\ CanWrite
    /\ inbound = <<>>
    /\ pc' = AfterRecv
    /\ UNCHANGED <<clientVars, mailboxVars, desiredVars, lastSentVars,
                   responses, connEvent, sendMutex, wroteAny, txPos, ctl,
                   chanOpen, inbound, obsVars, rt, threads, evLog, budget, shot>>

ReadFailKinds == {"peek_failed", "read_failed", "read_zero"}

\* PeekNamedPipe fails, or ReadFile fails or reads nothing: the engine
\* is at the call of HandleDisconnect() in ProcessIncoming
RecvFail ==
    /\ pc = "recv"
    /\ CanWrite
    /\ budget.ioFails < MaxIoFails
    /\ budget' = [budget EXCEPT !.ioFails = @ + 1]
    /\ \E kind \in ReadFailKinds : lastFail' = kind
    /\ pc' = "recv_disconnect"
    /\ UNCHANGED <<clientVars, mailboxVars, desiredVars, lastSentVars,
                   responses, connEvent, sendMutex, wroteAny, txPos, ctl,
                   chanOpen, inbound, wire, cycleStart, cycleNo, peerLog, consumer, rt, threads, evLog,
                   shot>>

\* HandleDisconnect(); return;  (lines 296-297 and 309-310)
RecvDisconnect ==
    /\ pc = "recv_disconnect"
    /\ sendMutex = "free"
    /\ HandleDisconnect
    /\ pc' = AfterRecv
    /\ lastFail' = ""
    /\ UNCHANGED <<running, recvBuf, mailboxVars, desiredVars, responses,
                   sendMutex, wroteAny, txPos, ctl, wire, cycleStart, cycleNo,
                   peerLog, consumer, rt, threads, budget, shot>>

\* a read that puts the chunk in place of the bytes held back
RecvReadReplace(readBytes) ==
    /\ pc = "recv"
    /\ CanWrite
    /\ readBytes \in 1..Len(inbound)
    /\ recvBuf' = SubSeq(inbound, 1, readBytes)
    /\ inbound' = SubSeq(inbound, readBytes + 1, Len(inbound))
    /\ pc' = "decode"
    /\ UNCHANGED <<running, connected, pipe, mailboxVars, desiredVars,
                   lastSentVars, responses, connEvent, sendMutex, wroteAny,
                   txPos, ctl, chanOpen, obsVars, rt, threads, evLog, budget, shot>>

\* ReadFile returns readBytes of the available bytes: _recvBuf += chunk
RecvRead(readBytes) ==
    /\ pc = "recv"
    /\ CanWrite
    /\ readBytes \in 1..Len(inbound)
    /\ recvBuf' = recvBuf \o SubSeq(inbound, 1, readBytes)
    /\ inbound' = SubSeq(inbound, readBytes + 1, Len(inbound))
    /\ pc' = "decode"
    /\ UNCHANGED <<running, connected, pipe, mailboxVars, desiredVars,
                   lastSentVars, responses, connEvent, sendMutex, wroteAny,
                   txPos, ctl, chanOpen, obsVars, rt, threads, evLog, budget, shot>>

\* one turn of the for (;;) loop with a newline in _recvBuf: the line is
\* cut off, decoded, and its message (if any) pushed
DecodeOne ==
    /\ pc = "decode"
    /\ Find(recvBuf, LF, 0) # -1
    /\ LET pos == Find(recvBuf, LF, 0)
           line == Substr(recvBuf, 0, pos)
           msg == DecodeLine(line)
       IN  /\ recvBuf' = SubstrFrom(recvBuf, pos + 1)
           /\ responses' = IF HasValue(msg)
                           THEN PushResponse(responses, Value(msg))
                           ELSE responses
    /\ UNCHANGED <<running, connected, pipe, mailboxVars, desiredVars,
                   lastSentVars, connEvent, sendMutex, engineVars, ctl,
                   chanOpen, inbound, obsVars, rt, threads, evLog, budget, shot>>

\* no newline in _recvBuf: break, and ProcessIncoming returns
DecodeDone ==
    /\ pc = "decode"
    /\ Find(recvBuf, LF, 0) = -1
    /\ pc' = AfterRecv
    /\ UNCHANGED <<clientVars, mailboxVars, desiredVars, lastSentVars,
                   responses, connEvent, sendMutex, wroteAny, txPos, ctl,
                   chanOpen, inbound, obsVars, rt, threads, evLog, budget, shot>>

(***************************************************************************)
(* Start and Stop, the consumer's calls, and the companion.                *)
(***************************************************************************)
\* Start(): returns at once when _running; else sets it and starts the thread
Start ==
    /\ ctl = "idle"
    /\ ~running
    /\ pc = "off"
    /\ running' = TRUE
    /\ pc' = "top"
    /\ threads' = threads + 1
    /\ UNCHANGED <<connected, pipe, recvBuf, mailboxVars, desiredVars,
                   lastSentVars, responses, connEvent, sendMutex, wroteAny,
                   txPos, ctl, chanOpen, inbound, obsVars, rt, evLog, budget,
                   shot>>

\* a stop request that leaves the running flag set
StopLeaveRunning ==
    /\ ctl = "idle"
    /\ pc # "off"
    /\ budget.stops < MaxStops
    /\ budget' = [budget EXCEPT !.stops = @ + 1]
    /\ pipe' = 0
    /\ chanOpen' = chanOpen \ {pipe}
    /\ inbound' = IF pipe = 0 THEN inbound ELSE <<>>
    /\ connected' = FALSE
    /\ ctl' = "joining"
    /\ UNCHANGED <<running, recvBuf, mailboxVars, desiredVars, lastSentVars,
                   responses, connEvent, sendMutex, engineVars, obsVars, rt, threads, evLog, shot>>

\* Stop() up to the join: _running = false; the handle closed and nulled;
\* _connected = false.  It takes no lock.
Stop ==
    /\ ctl = "idle"
    /\ pc # "off"
    /\ budget.stops < MaxStops
    /\ budget' = [budget EXCEPT !.stops = @ + 1]
    /\ running' = FALSE
    /\ pipe' = 0
    /\ chanOpen' = chanOpen \ {pipe}
    /\ inbound' = IF pipe = 0 THEN inbound ELSE <<>>
    /\ connected' = FALSE
    /\ ctl' = "joining"
    /\ UNCHANGED <<recvBuf, mailboxVars, desiredVars, lastSentVars, responses,
                   connEvent, sendMutex, engineVars, obsVars, rt, threads, evLog, shot>>

\* _thread.join() returns once the thread function has returned
StopJoin ==
    /\ ctl = "joining"
    /\ pc = "exited"
    /\ pc' = "off"
    /\ ctl' = "idle"
    /\ UNCHANGED <<clientVars, mailboxVars, desiredVars, lastSentVars,
                   responses, connEvent, sendMutex, wroteAny, txPos, chanOpen,
                   inbound, obsVars, rt, threads, evLog, budget, shot>>


\* a consumer call that takes the newest message instead of the oldest
ConsumeLastResponsePopBack ==
    /\ IF responses = <<>>
       THEN /\ consumer' = [consumer EXCEPT !.resp = << None >>]
            /\ UNCHANGED responses
       ELSE /\ consumer' = [consumer EXCEPT
                               !.resp = << Some(responses[Len(responses)]) >>,
                               !.taken = @ \o << responses[Len(responses)] >>]
            /\ responses' = SubSeq(responses, 1, Len(responses) - 1)
    /\ UNCHANGED <<clientVars, mailboxVars, desiredVars, lastSentVars,
                   connEvent, sendMutex, engineVars, ctl, chanOpen, inbound,
                   wire, cycleStart, cycleNo, lastFail, peerLog, rt, threads, evLog, budget,
                   shot>>

\* what the game thread got: consumer.event is the value of its last
\* ConsumeConnectionEvent() call (<<>> before the first call), eventCalls
\* the number of these calls (2 = two or more), consumer.resp the value of
\* its last ConsumeLastResponse() call, and consumer.taken the messages
\* these calls returned, in order
\* ConsumeLastResponse(): nullopt when the queue is empty, else the front
\* message, which is popped
ConsumeLastResponse ==
    /\ IF responses = <<>>
       THEN /\ consumer' = [consumer EXCEPT !.resp = << None >>]
            /\ UNCHANGED responses
       ELSE /\ consumer' = [consumer EXCEPT
                               !.resp = << Some(Head(responses)) >>,
                               !.taken = @ \o << Head(responses) >>]
            /\ responses' = Tail(responses)
    /\ UNCHANGED <<clientVars, mailboxVars, desiredVars, lastSentVars,
                   connEvent, sendMutex, engineVars, ctl, chanOpen, inbound,
                   wire, cycleStart, cycleNo, lastFail, peerLog, rt, threads, evLog, budget,
                   shot>>

\* ConsumeConnectionEvent(): e = _connEvent; _connEvent.reset(); return e
ConsumeConnectionEvent ==
    /\ consumer' = [consumer EXCEPT
                       !.event = << connEvent >>,
                       !.eventCalls = IF @ >= 2 THEN 2 ELSE @ + 1]
    /\ connEvent' = None
    /\ UNCHANGED <<clientVars, mailboxVars, desiredVars, lastSentVars,
                   responses, sendMutex, engineVars, ctl, chanOpen, inbound,
                   wire, cycleStart, cycleNo, lastFail, peerLog, rt, threads, evLog, budget,
                   shot>>

RECURSIVE CountLF(_)
CountLF(s) ==
    IF s = <<>> THEN 0
    ELSE (IF Head(s) = LF THEN 1 ELSE 0) + CountLF(Tail(s))

\* the companion writes the given lines into the open pipe
PeerSend(lines, limit) ==
    /\ pipe # 0
    /\ pipe \in chanOpen
    /\ budget.peer < limit
    /\ CountLF(inbound) < MaxInFlight
    /\ budget' = [budget EXCEPT !.peer = @ + 1]
    /\ inbound' = inbound \o Join([i \in 1..Len(lines) |-> lines[i] \o <<LF>>])
    /\ peerLog' = peerLog \o lines
    /\ UNCHANGED <<clientVars, mailboxVars, desiredVars, lastSentVars,
                   responses, connEvent, sendMutex, engineVars, ctl, chanOpen,
                   wire, cycleStart, cycleNo, lastFail, consumer, rt, threads, evLog, shot>>

(***************************************************************************)
(* The inputs of the producers, and the groups of the engine's steps.      *)
(***************************************************************************)
LangInputs == { <<"e", "n">>, <<"r", LF, "u">>, <<>> }

OptionInputs ==
    { <<>>,
      << <<"h", "i">> >>,
      << <<"a">>, <<"b", CR, "|", "c">> >> }

NoFavorites ==
    [shouts |-> <<>>, powers |-> <<>>, weapons |-> <<>>, spells |-> <<>>,
     potions |-> <<>>]

SomeFavorites ==
    [shouts |-> << [plugin |-> <<"S", "|", "m">>, formIdHex |-> <<"0", "x", "1">>,
                    name |-> <<"F", LF, "s">>, editorID |-> <<"V">>] >>,
     powers |-> <<>>,
     weapons |-> << [formIdHex |-> <<"0", "x", "2">>, name |-> <<"a", "x", "e">>] >>,
     spells |-> <<>>,
     potions |-> << [formIdHex |-> <<"0", "x", "3">>, name |-> <<"p", "|">>] >>]

MoreFavorites ==
    [shouts |-> << [plugin |-> <<"D", CR>>, formIdHex |-> <<"0", "x", "4">>,
                    name |-> <<"Y", "|", "o", "l">>, editorID |-> <<"T", "|">>] >>,
     powers |-> << [formIdHex |-> <<"0", "x", "5">>, name |-> <<"b", LF>>],
                   [formIdHex |-> <<"0", "x", "6">>, name |-> <<"c">>] >>,
     weapons |-> <<>>,
     spells |-> << [formIdHex |-> <<"0", "x", "7", CR>>, name |-> <<"|", "d">>] >>,
     potions |-> <<>>]

FavInputs == {NoFavorites, SomeFavorites, MoreFavorites}

\* every setter, with every toggle
Producer ==
    \/ \E o \in OptionInputs : SendOptions(o)
    \/ SendClose
    \/ \E on \in BOOLEAN : SendListen(on)
    \/ \E on \in BOOLEAN : SendListenShouts(on)
    \/ \E l \in LangInputs : SendGameLanguage(l)
    \/ \E c \in CfgIds, on \in BOOLEAN : SendConfig(c, on)
    \/ \E f \in FavInputs :
          SendAllFavorites(f.shouts, f.powers, f.weapons, f.spells, f.potions)

\* the loop of ThreadMain while the channel works
EngineCore ==
    \/ LoopServe
    \/ ConnectOk
    \/ Publish
    \/ CycleBegin
    \/ TxDone
    \/ RecvEmpty
    \/ Idle

\* a channel call fails
EngineFail ==
    \/ TxFail
    \/ Disconnect
    \/ Backoff
    \/ RecvFail
    \/ RecvDisconnect

\* the companion is not there yet
EngineRetry ==
    \/ ConnectFail
    \/ RetrySleep

\* what the engine does only after Stop() has acted
EngineStopped ==
    \/ LoopExit
    \/ TxNotConnected
    \/ RecvNotConnected

\* bytes have arrived
EngineRecv ==
    \/ \E n \in {Len(inbound), (Len(inbound) + 1) \div 2, 1} : RecvRead(n)
    \/ DecodeOne
    \/ DecodeDone

(***************************************************************************)
(* Spec: the producers and the engine over a channel that can fail, the    *)
(* client started once and not stopped.                                    *)
(***************************************************************************)
Next ==
    \/ Producer
    \/ Start
    \/ EngineCore
    \/ TxWrite
    \/ EngineFail
    \/ ConsumeConnectionEvent

Spec == Init /\ [][Next]_vars

(***************************************************************************)
(* SpecLife: Start() and Stop() called again and again, the companion      *)
(* late, and producers of the language and of the shouts toggles.          *)
(***************************************************************************)
ProducerLife ==
    \/ SendGameLanguage(<<"e", "n">>)
    \/ SendConfig(CfgShouts, TRUE)
    \/ SendListenShouts(TRUE)

NextLife ==
    \/ ProducerLife
    \/ Start
    \/ Stop
    \/ StopJoin
    \/ EngineCore
    \/ TxWrite
    \/ EngineFail
    \/ EngineRetry
    \/ EngineStopped
    \/ ConsumeConnectionEvent

SpecLife == Init /\ [][NextLife]_vars

\* SpecLifeFair: SpecLife where the engine thread is scheduled: a step of
\* ThreadMain that can be taken is taken in the end (the sleeps are finite,
\* CreateFileW, WriteFile, PeekNamedPipe and ReadFile return), and
\* _thread.join() returns once the thread function has returned
EngineStep ==
    EngineCore \/ TxWrite \/ EngineFail \/ EngineRetry \/ EngineStopped

SpecLifeFair ==
    Init /\ [][NextLife]_vars /\ WF_vars(EngineStep) /\ WF_vars(StopJoin)

(***************************************************************************)
(* SpecCallers: SpecLife with a second thread that calls Start().  Start() *)
(* and Stop() take no lock, so the call can come while the first caller    *)
(* is inside Stop().                                                       *)
(***************************************************************************)
\* Start() called by another thread while Stop() waits in _thread.join():
\* _running is false already, so the test of line 27 passes; _running is
\* set, std::thread's constructor starts a thread in ThreadMain, and the
\* move assignment to _thread, which is still joinable, ends in
\* std::terminate.  No thread takes a step after that: every position is
\* "terminated", and the mutex is not free again.
StartDuringStop ==
    /\ ctl = "joining"
    /\ ~running
    /\ running' = TRUE
    /\ threads' = threads + 1
    /\ ctl' = "terminated"
    /\ pc' = "terminated"
    /\ sendMutex' = "terminated"
    /\ UNCHANGED <<connected, pipe, recvBuf, mailboxVars, desiredVars,
                   lastSentVars, responses, connEvent, wroteAny, txPos,
                   chanOpen, inbound, obsVars, rt, evLog, budget, shot>>

NextCallers ==
    \/ ProducerLife
    \/ Start
    \/ Stop
    \/ StopJoin
    \/ StartDuringStop
    \/ EngineCore
    \/ TxWrite
    \/ EngineFail
    \/ EngineRetry
    \/ EngineStopped

SpecCallers == Init /\ [][NextCallers]_vars

(***************************************************************************)
(* SpecSticky: the producers set the language and the CFG|SHOUTS toggle,   *)
(* MaxStickySets times in all, so that a value can be set, sent, and set   *)
(* again or flipped away and back; the engine serves them, and one channel *)
(* call may fail.                                                          *)
(***************************************************************************)
\* the state after construction, with the count of setter calls starting
\* MaxStickySets calls below its limit MaxSets
InitSticky ==
    /\ running = FALSE
    /\ connected = FALSE
    /\ pipe = 0
    /\ recvBuf = <<>>
    /\ pendingOptions = None
    /\ pendingFavorites = None
    /\ pendingClose = FALSE
    /\ pendingListen = None
    /\ pendingListenVoiceHandle = None
    /\ desiredGameLang = None
    /\ desiredCfg = [c \in CfgIds |-> None]
    /\ lastSentGameLang = None
    /\ lastSentCfg = [c \in CfgIds |-> None]
    /\ responses = <<>>
    /\ connEvent = None
    /\ sendMutex = "free"
    /\ pc = "off"
    /\ wroteAny = FALSE
    /\ txPos = 1
    /\ ctl = "idle"
    /\ chanOpen = {}
    /\ inbound = <<>>
    /\ wire = <<>>
    /\ cycleStart = 0
    /\ cycleNo = 0
    /\ lastFail = ""
    /\ peerLog = <<>>
    /\ consumer = [event |-> <<>>, eventCalls |-> 0, resp |-> <<>>,
                   taken |-> <<>>]
    /\ budget = [sets |-> MaxSets - MaxStickySets, ioFails |-> 0,
                 connects |-> 0, connectFails |-> 0, stops |-> 0, peer |-> 0]
    /\ shot = [k \in OneShots |->
                 [nSet |-> 0, nTx |-> 0, nCoalesced |-> 0, sets |-> <<>>,
                  lastTx |-> None]]
    /\ rt = RtInit
    /\ threads = 0
    /\ evLog = <<>>

ProducerSticky ==
    \/ \E l \in LangInputs \ {<<>>} : SendGameLanguage(l)
    \/ \E on \in BOOLEAN : SendConfig(CfgShouts, on)

NextSticky ==
    \/ ProducerSticky
    \/ Start
    \/ EngineCore
    \/ TxWrite
    \/ EngineFail

SpecSticky == InitSticky /\ [][NextSticky]_vars

\* SpecStickyFair: SpecSticky where the engine thread is scheduled: a step
\* of ThreadMain that can be taken is taken in the end
EngineStepSticky == EngineCore \/ TxWrite \/ EngineFail

SpecStickyFair == InitSticky /\ [][NextSticky]_vars /\ WF_vars(EngineStepSticky)

(***************************************************************************)
(* SpecRuntime: the game plugin drives the client.  Its poll thread       *)
(* (Runtime.cpp, PollLoop) runs UpdateFocusDetection and then takes the    *)
(* connection event, every kFocusPollMs; the game's main thread runs the   *)
(* queued tasks, the dialogue menu's handler and the game-loaded handler.  *)
(* A read of the channel can fail once, so that the client connects a      *)
(* second time.                                                            *)
(***************************************************************************)
\* the setter calls of one handler: the value passed to SendListen and to
\* SendListenShouts (or None), whether SendClose is called, the batch
\* SendAllFavorites is called with (or None), and the ten toggles passed to
\* SendConfigOpen .. SendConfigPotions (or None)
NoCalls ==
    [listen |-> None, listenShouts |-> None, close |-> FALSE,
     favorites |-> None, cfg |-> None]

\* the record of a setter call for one-shot k with value v, as NoteSet
NotedSet(k, v) ==
    [shot[k] EXCEPT !.nSet = @ + 1,
                    !.nCoalesced = IF shot[k].sets = <<>> THEN @ ELSE @ + 1,
                    !.sets = Append(@, v)]

\* what the setter calls c assign (each setter under _sendMutex)
Calls(c) ==
    /\ c # NoCalls => sendMutex = "free"
    /\ pendingListen' = IF HasValue(c.listen) THEN c.listen ELSE pendingListen
    /\ pendingListenVoiceHandle' =
          IF HasValue(c.listenShouts) THEN c.listenShouts
          ELSE pendingListenVoiceHandle
    /\ pendingClose' = (pendingClose \/ c.close)
    /\ pendingFavorites' =
          IF HasValue(c.favorites) THEN c.favorites ELSE pendingFavorites
    /\ desiredCfg' =
          IF HasValue(c.cfg) THEN [i \in CfgIds |-> Some(Value(c.cfg)[i])]
          ELSE desiredCfg
    /\ shot' =
          [k \in OneShots |->
             CASE k = "listen" /\ HasValue(c.listen) ->
                     NotedSet(k, Value(c.listen))
               [] k = "listenShouts" /\ HasValue(c.listenShouts) ->
                     NotedSet(k, Value(c.listenShouts))
               [] k = "close" /\ c.close -> NotedSet(k, TRUE)
               [] k = "favorites" /\ HasValue(c.favorites) ->
                     NotedSet(k, Value(c.favorites))
               [] OTHER -> shot[k]]
    /\ UNCHANGED <<clientVars, pendingOptions, desiredGameLang, lastSentVars,
                   responses, sendMutex, engineVars, ctl, chanOpen, inbound,
                   wire, cycleStart, cycleNo, lastFail, peerLog, budget,
                   threads, evLog>>

\* the toggles the Is...Enabled() getters return, in CfgOrder: the voice-open
\* and shouts toggles as set, the others at their defaults (Settings.cpp)
SettingsCfg(voiceOpen, shouts) ==
    << voiceOpen, TRUE, shouts, FALSE, FALSE, TRUE, FALSE, FALSE, FALSE,
       FALSE >>

\* what ScanAllFavorites(true) collects
ScanInputs == {SomeFavorites}

\* StartPollThread(): called after PipeClient::Start() (Plugin.cpp)
StartPollThread ==
    /\ running
    /\ rt.pc = "off"
    /\ rt' = [rt EXCEPT !.pc = "poll"]
    /\ Calls(NoCalls)
    /\ UNCHANGED <<connEvent, consumer>>

\* UpdateFocusDetection(): the value of g_listenModeActive after it, with an
\* NPC in front or not (hasFocus), the focus or its loss lasting for the
\* delay or not (elapsed: a focus acquired or lost in this poll has lasted
\* 0 ms), and the game paused or not
ListenModeAfter(hasFocus, elapsed, paused) ==
    IF rt.dialogueOpen \/ ~rt.voiceOpen THEN FALSE
    ELSE IF paused THEN rt.listenModeActive
    ELSE LET lasted == elapsed /\ hasFocus = rt.hadFocusLastPoll
         IN  IF hasFocus
             THEN rt.listenModeActive \/ lasted
             ELSE rt.listenModeActive /\ ~lasted

\* what a poll finds: the game paused, or an NPC in front or none, for
\* the delay or not
PollInputs ==
    {[paused |-> TRUE, hasFocus |-> FALSE, elapsed |-> FALSE]} \cup
    {[paused |-> FALSE, hasFocus |-> h, elapsed |-> e] :
        h \in BOOLEAN, e \in BOOLEAN}

\* one iteration of PollLoop: UpdateFocusDetection(), where SendListen is
\* called when, and only when, g_listenModeActive changes (there is no NPC
\* in front before a game is loaded); then the connection event is taken:
\* on Connected the ten toggles are sent when the game is loaded, and the
\* task that rescans the favorites is queued
PollLoop ==
    /\ rt.pc = "poll"
    /\ \E in \in PollInputs :
          LET hasFocus == in.hasFocus /\ rt.gameLoaded
              paused == in.paused
              after == ListenModeAfter(hasFocus, in.elapsed, paused)
              sync == connEvent = Some(TRUE) /\ rt.gameLoaded
              c == [NoCalls EXCEPT
                      !.listen = IF after = rt.listenModeActive THEN None
                                 ELSE Some(after),
                      !.cfg = IF sync
                              THEN Some(SettingsCfg(rt.voiceOpen, rt.shouts))
                              ELSE None]
          IN  /\ HasValue(c.listen) => rt.changes < MaxGameChanges
              /\ rt' = [rt EXCEPT
                          !.listenModeActive = after,
                          !.hadFocusLastPoll =
                             IF rt.dialogueOpen \/ ~rt.voiceOpen \/ paused
                             THEN @ ELSE hasFocus,
                          !.tasks = IF sync
                                    THEN Append(@, IF rt.shouts
                                                   THEN "rescan_listen"
                                                   ELSE "rescan")
                                    ELSE @,
                          !.changes = IF HasValue(c.listen) THEN @ + 1
                                      ELSE @]
              /\ Calls(c)
    /\ consumer' = [consumer EXCEPT
                       !.event = << connEvent >>,
                       !.eventCalls = IF @ >= 2 THEN 2 ELSE @ + 1]
    /\ connEvent' = None

\* the main thread runs the oldest queued task: ScanAllFavorites(true),
\* and SendListenShouts(true) when the task's condition holds; or the
\* selection task of RequestSelectIndex_MainThread, which sleeps, selects
\* the topic and stores false to g_selectInFlight
RunTask ==
    /\ rt.tasks # <<>>
    /\ IF Head(rt.tasks) = "select"
       THEN /\ rt' = [rt EXCEPT !.tasks = Tail(@), !.select.inFlight = FALSE]
            /\ Calls(NoCalls)
       ELSE \E f \in ScanInputs :
          LET task == Head(rt.tasks)
              listen == CASE task = "rescan_listen" -> ~rt.dialogueOpen
                          [] task = "rescan" -> FALSE
                          [] task = "loaded" -> rt.shouts
              c == [NoCalls EXCEPT
                      !.favorites =
                         Some(FavoritesLines(f.shouts, f.powers, f.weapons,
                                             f.spells, f.potions)),
                      !.listenShouts = IF listen THEN Some(TRUE) ELSE None]
          IN  /\ rt' = [rt EXCEPT !.tasks = Tail(@)]
              /\ Calls(c)
    /\ UNCHANGED <<connEvent, consumer>>

\* syncOnGameLoaded (kNewGame, kPostLoadGame), with the settings the save
\* carried: the ten toggles are sent and the first rescan is queued.  A
\* game is loaded after SKSEPluginLoad has returned, which starts the
\* client and the poll thread
GameLoaded ==
    /\ rt.pc # "off"
    /\ ~rt.gameLoaded
    /\ \E voiceOpen \in BOOLEAN, shouts \in BOOLEAN :
          LET c == [NoCalls EXCEPT !.cfg = Some(SettingsCfg(voiceOpen, shouts))]
          IN  /\ rt' = [rt EXCEPT
                          !.gameLoaded = TRUE,
                          !.voiceOpen = voiceOpen,
                          !.shouts = shouts,
                          !.tasks = Append(@, "loaded")]
              /\ Calls(c)
    /\ UNCHANGED <<connEvent, consumer>>

\* DialogueMenuWatcher::ProcessEvent for the Dialogue Menu
MenuOpenCloseUpTo(opening, limit) ==
    /\ rt.gameLoaded
    /\ rt.dialogueOpen # opening
    /\ LET c == IF opening
                THEN [NoCalls EXCEPT !.listenShouts = Some(FALSE)]
                ELSE [NoCalls EXCEPT
                        !.close = TRUE,
                        !.listenShouts = IF rt.shouts THEN Some(TRUE)
                                         ELSE None]
       IN  /\ rt.changes < limit
           /\ rt' = [rt EXCEPT !.dialogueOpen = opening,
                               !.select.inFlight = FALSE,
                               !.changes = @ + 1]
           /\ Calls(c)
    /\ UNCHANGED <<connEvent, consumer>>

\* the handler in the runtime specification
MenuOpenClose(opening) == MenuOpenCloseUpTo(opening, MaxGameChanges)

\* the main thread's steps
MainStep ==
    \/ RunTask
    \/ GameLoaded
    \/ \E opening \in BOOLEAN : MenuOpenClose(opening)

\* the engine's steps of this specification: the channel fails in
\* ProcessIncoming (PeekNamedPipe or ReadFile)
EngineStepRuntime == EngineCore \/ TxWrite \/ RecvFail \/ RecvDisconnect

NextRuntime ==
    \/ Start
    \/ StartPollThread
    \/ PollLoop
    \/ MainStep
    \/ EngineCore
    \/ TxWrite
    \/ RecvFail
    \/ RecvDisconnect

\* the two threads are scheduled: the engine thread and the poll thread
\* take their next step in the end (their sleeps are finite)
SpecRuntime ==
    /\ Init
    /\ [][NextRuntime]_vars
    /\ WF_vars(EngineStepRuntime)
    /\ WF_vars(PollLoop)

(***************************************************************************)
(* SpecDecode: the companion writes lines of every layout, well formed and *)
(* not, each followed by a DBG line; the engine reads and decodes them,    *)
(* the consumer takes the messages.                                        *)
(***************************************************************************)
L_DBG == <<"D", "B", "G", "|", "k">>
L_STATUS == <<"e", "f", "f", "e", "c", "t", "i", "v", "e", ":", " ", "1">>

\* RES|<index>|<score>
ResLine(index, score) == P_RES \o index \o <<Bar>> \o score

\* the index and score fields of the model, as text and as value
IndexFields ==
    { [text |-> <<"1">>, ok |-> TRUE, val |-> 1],
      [text |-> <<" ", "1", "2", "x">>, ok |-> TRUE, val |-> 12],
      [text |-> <<"-", "3">>, ok |-> TRUE, val |-> 0 - 3],
      [text |-> <<"x">>, ok |-> FALSE, val |-> 0],
      [text |-> <<>>, ok |-> FALSE, val |-> 0],
      [text |-> <<"9", "9", "9", "9", "9", "9", "9", "9", "9", "9">>, ok |-> FALSE, val |-> 0] }

ScoreFields ==
    { [text |-> <<"0", ".", "5">>, ok |-> TRUE, val |-> 500],
      [text |-> <<"1">>, ok |-> TRUE, val |-> 1000],
      [text |-> <<"y">>, ok |-> FALSE, val |-> 0],
      [text |-> <<>>, ok |-> FALSE, val |-> 0] }

GoodScores == {f \in ScoreFields : f.ok}

\* a RES line without a second '|': the score field is missing
ResNoScoreLines == { P_RES \o f.text : f \in IndexFields }

FormIds == { <<"0", "x", "1", "A">> }
Plugins == { <<"S", ".", "e", "s", "m">> }
Texts == { <<"h", "i">>, <<"a", "|", "b">>, <<>> }
PowerFields == { [text |-> <<"2">>, val |-> 2] }
ItemKinds == {K_weapon, K_spell, K_potion}
OtherKinds == {K_open, <<"z", "z">>}

\* the layouts of a TRIG line
TrigShoutLine(plugin, formId, power, score, text) ==
    P_TRIG \o K_shout \o <<Bar>> \o plugin \o <<Bar>> \o formId \o <<Bar>>
    \o power \o <<Bar>> \o score \o <<Bar>> \o text
TrigFormLine(kind, formId, score, text) ==
    P_TRIG \o kind \o <<Bar>> \o formId \o <<Bar>> \o score \o <<Bar>> \o text
TrigOtherLine(kind, score, text) ==
    P_TRIG \o kind \o <<Bar>> \o score \o <<Bar>> \o text

ResInputs ==
    { ResLine(i.text, f.text) : i \in IndexFields, f \in ScoreFields }
    \cup ResNoScoreLines

TrigInputs ==
    { TrigShoutLine(pl, id, pw.text, f.text, t) :
          pl \in Plugins, id \in FormIds, pw \in PowerFields,
          f \in GoodScores, t \in Texts }
    \cup { TrigFormLine(k, id, f.text, t) :
          k \in ItemKinds \cup {K_power}, id \in FormIds, f \in GoodScores,
          t \in Texts }
    \cup { TrigOtherLine(k, f.text, t) :
          k \in OtherKinds, f \in GoodScores, t \in Texts }

BadScores == {f \in ScoreFields : ~f.ok}
BadPowerFields == { <<"x">>, <<>> }

\* a Trigger of the given kind with nothing else decoded
TrigOfKind(kind) == [PipeResponse EXCEPT !.type = "TRIG", !.trigKind = kind]

\* TRIG lines cut short: a line, and the Trigger with the fields that a '|'
\* ends before the cut
TrigShortCases ==
    { [line |-> SubSeq(P_TRIG, 1, 5) \o K_shout, msg |-> TrigOfKind(<<>>)] }
    \cup { [line |-> P_TRIG \o K_shout \o <<Bar>> \o pl,
            msg |-> TrigOfKind(K_shout)] : pl \in Plugins }
    \cup { [line |-> P_TRIG \o K_shout \o <<Bar>> \o pl \o <<Bar>> \o id,
            msg |-> [TrigOfKind(K_shout) EXCEPT !.shoutPlugin = pl]] :
          pl \in Plugins, id \in FormIds }
    \cup { [line |-> P_TRIG \o K_shout \o <<Bar>> \o pl \o <<Bar>> \o id
                     \o <<Bar>> \o pw.text,
            msg |-> [TrigOfKind(K_shout) EXCEPT !.shoutPlugin = pl,
                                                !.shoutFormID = id]] :
          pl \in Plugins, id \in FormIds, pw \in PowerFields }
    \cup { [line |-> P_TRIG \o K_shout \o <<Bar>> \o pl \o <<Bar>> \o id
                     \o <<Bar>> \o pw.text \o <<Bar>> \o f.text,
            msg |-> [TrigOfKind(K_shout) EXCEPT !.shoutPlugin = pl,
                                                !.shoutFormID = id,
                                                !.shoutPower = pw.val]] :
          pl \in Plugins, id \in FormIds, pw \in PowerFields,
          f \in GoodScores }
    \cup { [line |-> P_TRIG \o K_power \o <<Bar>> \o id,
            msg |-> TrigOfKind(K_power)] : id \in FormIds }
    \cup { [line |-> P_TRIG \o K_power \o <<Bar>> \o id \o <<Bar>> \o f.text,
            msg |-> [TrigOfKind(K_power) EXCEPT !.powerFormID = id]] :
          id \in FormIds, f \in GoodScores }
    \cup { [line |-> P_TRIG \o k \o <<Bar>> \o id, msg |-> TrigOfKind(k)] :
          k \in ItemKinds, id \in FormIds }
    \cup { [line |-> P_TRIG \o k \o <<Bar>> \o id \o <<Bar>> \o f.text,
            msg |-> [TrigOfKind(k) EXCEPT !.itemFormID = id]] :
          k \in ItemKinds, id \in FormIds, f \in GoodScores }
    \cup { [line |-> P_TRIG \o k \o <<Bar>> \o f.text, msg |-> TrigOfKind(k)] :
          k \in OtherKinds, f \in GoodScores }

\* TRIG lines with a number that does not parse: a line, and the Trigger
\* with the fields before that number
TrigBadNumberCases ==
    { [line |-> TrigShoutLine(pl, id, pw, f.text, t),
       msg |-> [TrigOfKind(K_shout) EXCEPT !.shoutPlugin = pl,
                                           !.shoutFormID = id]] :
          pl \in Plugins, id \in FormIds, pw \in BadPowerFields,
          f \in GoodScores, t \in Texts }
    \cup { [line |-> TrigShoutLine(pl, id, pw.text, f.text, t),
            msg |-> [TrigOfKind(K_shout) EXCEPT !.shoutPlugin = pl,
                                                !.shoutFormID = id,
                                                !.shoutPower = pw.val]] :
          pl \in Plugins, id \in FormIds, pw \in PowerFields,
          f \in BadScores, t \in Texts }
    \cup { [line |-> TrigFormLine(K_power, id, f.text, t),
            msg |-> [TrigOfKind(K_power) EXCEPT !.powerFormID = id]] :
          id \in FormIds, f \in BadScores, t \in Texts }
    \cup { [line |-> TrigFormLine(k, id, f.text, t),
            msg |-> [TrigOfKind(k) EXCEPT !.itemFormID = id]] :
          k \in ItemKinds, id \in FormIds, f \in BadScores, t \in Texts }
    \cup { [line |-> TrigOtherLine(k, f.text, t), msg |-> TrigOfKind(k)] :
          k \in OtherKinds, f \in BadScores, t \in Texts }

TrigBadInputs == { c.line : c \in TrigShortCases \cup TrigBadNumberCases }

\* DBG lines with a '|' in the text and with no text, and lines that only
\* resemble a RES, TRIG or DBG line, an empty line and one of another kind
DbgInputs == { <<"D", "B", "G", "|", "a", "|", "b">>, <<"D", "B", "G", "|">> }
OtherInputs ==
    { <<"R", "E", "S">>,
      <<"d", "b", "g", "|", "k">>,
      <<" ", "D", "B", "G", "|", "k">>,
      <<"T", "R", "I", "G">>,
      <<"X", "R", "E", "S", "|", "1", "|", "1">>,
      <<>>,
      <<"H", "E", "L", "L", "O", "|", "1">> }

DecodeInputs ==
    ResInputs \cup TrigInputs \cup TrigBadInputs \cup {L_STATUS}
    \cup DbgInputs \cup OtherInputs

NextDecode ==
    \/ Start
    \/ EngineCore
    \/ EngineRecv
    \/ ConsumeLastResponse
    \/ \E l \in DecodeInputs : PeerSend(<<l, L_DBG>>, MaxPeerLines)

SpecDecode == Init /\ [][NextDecode]_vars

(***************************************************************************)
(* SpecQueue: the companion writes more RES lines than the Response Queue  *)
(* holds, numbered from 1, and nothing takes the messages.                 *)
(***************************************************************************)
NumberedLine(n) == ResLine(to_string(n), <<"0", ".", "5">>)
NumberedMessage(n) ==
    [PipeResponse EXCEPT !.type = "RES", !.index = n, !.score = 500]

NextQueue ==
    \/ Start
    \/ EngineCore
    \/ EngineRecv
    \/ PeerSend(<< NumberedLine(budget.peer + 1) >>, RespCap + MaxOverflow)

SpecQueue == Init /\ [][NextQueue]_vars

(***************************************************************************)
(* SpecReconnect: the companion writes numbered RES lines, the engine      *)
(* reads them in chunks, a read of the channel can fail, and the engine    *)
(* connects again.                                                         *)
(***************************************************************************)
NextReconnect ==
    \/ Start
    \/ EngineCore
    \/ EngineRecv
    \/ RecvFail
    \/ RecvDisconnect
    \/ PeerSend(<< NumberedLine(budget.peer + 1) >>, MaxConnects)

SpecReconnect == Init /\ [][NextReconnect]_vars

(***************************************************************************)
(* SpecMute: the mute window of the player's voice line (VoiceTrigger.cpp, *)
(* MuteVoiceLine).  The calls come from tasks of the main thread, one      *)
(* after the other; each starts a detached timer thread.  The setting      *)
(* MuteShoutVoiceLine is on (MuteVoiceLine is called only then).  A step   *)
(* is one access to the two atomics.                                       *)
(***************************************************************************)
allButRt ==
    <<clientVars, mailboxVars, desiredVars, lastSentVars, responses,
      connEvent, sendMutex, engineVars, ctl, chanOpen, inbound, obsVars,
      budget, shot, threads, evLog>>

\* IsMuteWindowActive() with the setting on
IsMuteWindowActive == rt.mute.window

\* the timer thread a MuteVoiceLine call starts: its captured generation,
\* its position and the turns of its loop done
NewTimer(gen) == [gen |-> gen, pc |-> "sleep", elapsed |-> 0]

\* MuteVoiceLine, line 226: g_muteShoutVoiceWindow.store(true)
MuteOpen ==
    /\ ~rt.mute.opening
    /\ Len(rt.mute.timers) < MaxMuteCalls
    /\ rt' = [rt EXCEPT !.mute.window = TRUE, !.mute.opening = TRUE]
    /\ UNCHANGED allButRt

\* MuteVoiceLine, lines 227-266: gen = fetch_add(1) + 1, and the timer
\* thread is started with it
MuteGen ==
    /\ rt.mute.opening
    /\ rt' = [rt EXCEPT !.mute.opening = FALSE,
                        !.mute.gen = @ + 1,
                        !.mute.timers = Append(@, NewTimer(rt.mute.gen + 1))]
    /\ UNCHANGED allButRt

\* lines 242-248: the sleep is over; the thread returns when the counter is
\* not its generation any more
TimerGenCheck(i) ==
    /\ i \in DOMAIN rt.mute.timers
    /\ rt.mute.timers[i].pc = "sleep"
    /\ rt' = [rt EXCEPT !.mute.timers[i].elapsed = @ + 1,
                        !.mute.timers[i].pc =
                            IF rt.mute.gen # rt.mute.timers[i].gen
                            THEN "done" ELSE "active"]
    /\ UNCHANGED allButRt

\* lines 249-260: the thread returns when the window is closed; else it
\* queues a task that stops the player's sounds, and the loop goes on until
\* the window's time is over
TimerActiveCheck(i) ==
    /\ i \in DOMAIN rt.mute.timers
    /\ rt.mute.timers[i].pc = "active"
    /\ rt' = [rt EXCEPT !.mute.timers[i].pc =
                            IF ~IsMuteWindowActive THEN "done"
                            ELSE IF rt.mute.timers[i].elapsed < MutePolls
                                 THEN "sleep" ELSE "final"]
    /\ UNCHANGED allButRt

\* line 262: if (g_muteShoutVoiceWindowGen.load() == gen)
TimerFinalCheck(i) ==
    /\ i \in DOMAIN rt.mute.timers
    /\ rt.mute.timers[i].pc = "final"
    /\ rt' = [rt EXCEPT !.mute.timers[i].pc =
                            IF rt.mute.gen = rt.mute.timers[i].gen
                            THEN "clear" ELSE "done"]
    /\ UNCHANGED allButRt

\* line 263: g_muteShoutVoiceWindow.store(false)
TimerClear(i) ==
    /\ i \in DOMAIN rt.mute.timers
    /\ rt.mute.timers[i].pc = "clear"
    /\ rt' = [rt EXCEPT !.mute.window = FALSE,
                        !.mute.timers[i].pc = "done"]
    /\ UNCHANGED allButRt

NextMute ==
    \/ MuteOpen
    \/ MuteGen
    \/ \E i \in 1..MaxMuteCalls : TimerGenCheck(i)
    \/ \E i \in 1..MaxMuteCalls : TimerActiveCheck(i)
    \/ \E i \in 1..MaxMuteCalls : TimerFinalCheck(i)
    \/ \E i \in 1..MaxMuteCalls : TimerClear(i)

SpecMute == Init /\ [][NextMute]_vars

(***************************************************************************)
(* SpecSelect: the selection of a dialogue topic.  The poll thread takes   *)
(* RES responses and calls RequestSelectIndex_MainThread; the main thread  *)
(* runs the queued tasks and the dialogue menu's handler.  The setting     *)
(* DialogueSelect is on (its default).                                     *)
(***************************************************************************)
\* the index of a RES response: no match, or a topic
SelectInputs == {-1, 0}

\* Runtime.cpp, lines 219-277: a RES response is taken; with the dialogue
\* open and an index that is not negative the selection is requested
SelectCheck(index) ==
    /\ rt.pc = "poll"
    /\ rt.select.poll = "idle"
    /\ rt.select.requests < MaxSelectRequests
    /\ rt' = [rt EXCEPT !.select.requests = @ + 1,
                        !.select.poll = IF rt.dialogueOpen /\ index >= 0
                                        THEN "cas" ELSE "idle"]
    /\ UNCHANGED allButRt

\* RequestSelectIndex_MainThread, lines 120-124:
\* g_selectInFlight.compare_exchange_strong(expected, true), and the
\* request is skipped when the flag was set
SelectCas ==
    /\ rt.select.poll = "cas"
    /\ rt' = IF rt.select.inFlight
             THEN [rt EXCEPT !.select.poll = "idle", !.select.skipped = @ + 1]
             ELSE [rt EXCEPT !.select.poll = "add", !.select.inFlight = TRUE]
    /\ UNCHANGED allButRt

\* RequestSelectIndex_MainThread, lines 128-136: AddTask
SelectAddTask ==
    /\ rt.select.poll = "add"
    /\ rt' = [rt EXCEPT !.select.poll = "idle",
                        !.tasks = Append(@, "select")]
    /\ UNCHANGED allButRt

NextSelect ==
    \/ Start
    \/ StartPollThread
    \/ GameLoaded
    \/ RunTask
    \/ \E opening \in BOOLEAN : MenuOpenCloseUpTo(opening, MaxMenuEvents)
    \/ \E index \in SelectInputs : SelectCheck(index)
    \/ SelectCas
    \/ SelectAddTask

SpecSelect == Init /\ [][NextSelect]_vars

(***************************************************************************)
(* What is observed of a service cycle: the lines written in it, and the   *)
(* place of a line's command in the protocol's order.                      *)
(***************************************************************************)
CycleLines == SubSeq(wire, cycleStart + 1, Len(wire))

IsLangLine(l) == StartsWith(l, S_LANG)
IsCfgLine(l) == StartsWith(l, S_CFG)
IsCfgShoutsLine(l) == \E b \in BOOLEAN : l = CfgLine(CfgShouts, b)
IsListenShoutsLine(l) == StartsWith(l, S_LISTEN_SHOUTS)
IsStickyLine(l) == IsLangLine(l) \/ IsCfgLine(l)
IsOneShotLine(l) == ~IsStickyLine(l)
\* a line of the options batch, the close signal, the favorites batch or
\* the general listen toggle
IsEarlyOneShotLine(l) == IsOneShotLine(l) /\ ~IsListenShoutsLine(l)

\* the connection is not the client's first one
Reconnected == budget.connects >= 2

\* the lines on the connection that carry the language, or toggle c
LangLinesOn(w) == SelectSeq(w, IsLangLine)
CfgLinesOn(w, c) ==
    SelectSeq(w, LAMBDA l : StartsWith(l, S_CFG \o CfgOrder[c] \o <<Bar>>))

\* the engine is at the end of the transmit block of the first service
\* cycle of a connection that is not the client's first one
FirstCycleWritten ==
    /\ pc = "tx"
    /\ NextDue(txPos) = 0
    /\ cycleNo = 1
    /\ Reconnected

(***************************************************************************)
(* C1.  When the first service cycle after a reconnect has written its     *)
(* lines, every sticky toggle (the language and the ten CFG toggles) that  *)
(* has a desired value has been written on the new connection exactly      *)
(* once, with its desired value.                                           *)
(***************************************************************************)
C1_StickyResentOnce ==
    FirstCycleWritten =>
        /\ HasValue(desiredGameLang) =>
              LangLinesOn(wire) = << LangLine(Value(desiredGameLang)) >>
        /\ \A c \in CfgIds :
              HasValue(desiredCfg[c]) =>
                  CfgLinesOn(wire, c) = << CfgLine(c, Value(desiredCfg[c])) >>

(***************************************************************************)
(* C2.  In a service cycle in which both CFG|SHOUTS and LISTEN|SHOUTS are  *)
(* written (both were due), the CFG|SHOUTS line is written strictly before *)
(* the LISTEN|SHOUTS line.                                                 *)
(***************************************************************************)
C2_CfgShoutsBeforeListenShouts ==
    \A i, j \in DOMAIN CycleLines :
        (IsCfgShoutsLine(CycleLines[i]) /\ IsListenShoutsLine(CycleLines[j]))
            => i < j

\* a cycle has written both lines
C2_Witness ==
    \E i, j \in DOMAIN CycleLines :
        IsCfgShoutsLine(CycleLines[i]) /\ IsListenShoutsLine(CycleLines[j])

(***************************************************************************)
(* C3.  As stated: in the first service cycle of a connection no line of a *)
(* one-shot command is written before the line of a sticky toggle.         *)
(***************************************************************************)
C3_StickyBeforeOneShots ==
    cycleNo = 1 =>
        \A i, j \in DOMAIN CycleLines :
            (IsOneShotLine(CycleLines[i]) /\ IsStickyLine(CycleLines[j]))
                => j < i

(***************************************************************************)
(* C3, amended.  In the first service cycle of a connection the language   *)
(* line is written before every one-shot line, and every CFG line is       *)
(* written after the lines of the options batch, the close signal, the     *)
(* favorites batch and the general listen toggle, and before the           *)
(* LISTEN|SHOUTS line.                                                     *)
(***************************************************************************)
C3_LangFirstCfgBeforeListenShouts ==
    cycleNo = 1 =>
        \A i, j \in DOMAIN CycleLines :
            /\ (IsLangLine(CycleLines[i]) /\ IsOneShotLine(CycleLines[j]))
                  => i < j
            /\ (IsEarlyOneShotLine(CycleLines[i]) /\ IsCfgLine(CycleLines[j]))
                  => i < j
            /\ (IsCfgLine(CycleLines[i]) /\ IsListenShoutsLine(CycleLines[j]))
                  => i < j

\* the first cycle after a reconnect has written a one-shot line and then
\* a CFG line
C3_Witness ==
    /\ cycleNo = 1
    /\ Reconnected
    /\ \E i, j \in DOMAIN CycleLines :
          /\ i < j
          /\ IsEarlyOneShotLine(CycleLines[i])
          /\ IsCfgLine(CycleLines[j])

\* s is a leading part of t
IsPrefix(s, t) == Len(s) <= Len(t) /\ s = SubSeq(t, 1, Len(s))

(***************************************************************************)
(* C4.  A transmission of a one-shot command carries the lines of the      *)
(* last value set before it and of no earlier value (all of them when the  *)
(* writes succeed, a leading part when a write fails); a value set over a  *)
(* pending one adds no transmission; and while no channel call has failed, *)
(* a drained command has been transmitted exactly once for each run of     *)
(* values set before a drain.                                              *)
(***************************************************************************)
C4_Coalescing ==
    \A k \in OneShots :
        /\ HasValue(shot[k].lastTx) =>
              LET tx == Value(shot[k].lastTx)
              IN  /\ tx.lines # <<>>
                  /\ IsPrefix(tx.lines, tx.want)
                  /\ tx.ok => tx.lines = tx.want
        /\ shot[k].nTx + shot[k].nCoalesced <= shot[k].nSet
        /\ (budget.ioFails = 0 /\ shot[k].sets = <<>>) =>
              shot[k].nTx + shot[k].nCoalesced = shot[k].nSet

\* the options batch was set twice before a drain, and then transmitted once
C4_Witness ==
    /\ shot["options"].nSet = 2
    /\ shot["options"].nCoalesced = 1
    /\ shot["options"].nTx = 1
    /\ shot["options"].sets = <<>>
    /\ Value(shot["options"].lastTx).ok

(***************************************************************************)
(* C6.  Every transmission of a one-shot command or listen toggle follows  *)
(* a setter call made since the command was last consumed: a command that  *)
(* was transmitted is not transmitted again, in a later cycle or after a   *)
(* reconnect, unless a producer set it again.                              *)
(***************************************************************************)
C6_NoAutomaticRetransmit ==
    [][\A k \in OneShots :
          shot'[k].nTx > shot[k].nTx => shot[k].sets # <<>>]_vars

\* LISTEN|SHOUTS was transmitted, the connection was lost, and the first
\* cycle of the next connection has ended without a LISTEN|SHOUTS line
C6_Witness ==
    /\ shot["listenShouts"].nTx = 1
    /\ shot["listenShouts"].sets = <<>>
    /\ Reconnected
    /\ cycleNo = 1
    /\ pc = "recv"
    /\ \A i \in DOMAIN wire : ~IsListenShoutsLine(wire[i])

(***************************************************************************)
(* C7.  No line is written to the channel while the engine holds           *)
(* _sendMutex, the lock every producer setter takes.                       *)
(***************************************************************************)
C7_NoWriteUnderSendMutex ==
    [][Len(wire') > Len(wire) => sendMutex # "engine"]_vars

(***************************************************************************)
(* C8.  Whichever channel call failed while connected (a write failed or   *)
(* was short, a peek failed, a read failed or read nothing), the teardown  *)
(* that follows leaves the handle closed and null, the connected flag      *)
(* false, every lastSent unset and a Disconnected event in the cell.       *)
(***************************************************************************)
C8_UniformTeardown ==
    [][(/\ lastFail \in WriteFailKinds \cup ReadFailKinds
        /\ lastFail' = ""
        /\ connected)
       => (/\ pipe' = 0
           /\ pipe \notin chanOpen'
           /\ ~connected'
           /\ lastSentGameLang' = None
           /\ \A c \in CfgIds : lastSentCfg'[c] = None
           /\ connEvent' = Some(FALSE))]_vars

\* the language had been written, a later write failed, and the teardown
\* has run
C8_Witness ==
    /\ pc = "backoff"
    /\ budget.ioFails = 1
    /\ Len(LangLinesOn(wire)) = 1
    /\ HasValue(desiredGameLang)
    /\ lastSentGameLang = None
    /\ pipe = 0
    /\ chanOpen = {}
    /\ ~connected
    /\ connEvent = Some(FALSE)

(***************************************************************************)
(* What is observed of the decoding: the line the for (;;) loop cuts off   *)
(* next, a step that decodes it, and the message that step enqueued.       *)
(***************************************************************************)
NextLine == Substr(recvBuf, 0, Find(recvBuf, LF, 0))
DecodesLine ==
    /\ pc = "decode"
    /\ Find(recvBuf, LF, 0) # -1
    /\ recvBuf' # recvBuf
Enqueued(msg) ==
    /\ Len(responses') = Len(responses) + 1
    /\ responses'[Len(responses')] = msg
    /\ pc' = "decode"
    /\ recvBuf' = SubstrFrom(recvBuf, Find(recvBuf, LF, 0) + 1)

\* the lines the companion has written that the engine has decoded
LinesDecoded == budget.peer - CountLF(inbound) - CountLF(recvBuf)

(***************************************************************************)
(* C5.  The Response Queue never holds more than 128 messages, and while   *)
(* nothing is taken from it, it holds the most recent 128 (or all, when    *)
(* fewer) of the messages decoded, in the order of their arrival.          *)
(***************************************************************************)
C5_BoundedQueue ==
    /\ Len(responses) <= 128
    /\ LET kept == IF LinesDecoded > 128 THEN 128 ELSE LinesDecoded
       IN  responses =
              [i \in 1..kept |-> NumberedMessage(LinesDecoded - kept + i)]

\* more than 128 messages were enqueued: the oldest ones are gone
C5_Witness ==
    /\ LinesDecoded = 128 + MaxOverflow
    /\ Len(responses) = 128
    /\ responses[1] = NumberedMessage(MaxOverflow + 1)
    /\ responses[128] = NumberedMessage(128 + MaxOverflow)

(***************************************************************************)
(* C9.  A RES line whose index field or score field does not parse, or     *)
(* whose score field is missing, is enqueued as a Result with index -1 and *)
(* score 0; the loop goes on with the next line, and ProcessIncoming       *)
(* leaves no complete line undecoded.                                      *)
(***************************************************************************)
C9_ResFallback ==
    /\ [](pc # "decode" => Find(recvBuf, LF, 0) = -1)
    /\ [][DecodesLine =>
            /\ \A i \in IndexFields, f \in ScoreFields :
                  (NextLine = ResLine(i.text, f.text) /\ ~(i.ok /\ f.ok)) =>
                      Enqueued([PipeResponse EXCEPT !.type = "RES"])
            /\ NextLine \in ResNoScoreLines =>
                  Enqueued([PipeResponse EXCEPT !.type = "RES"])]_vars

\* a RES line with a field that does not parse was written; its fallback
\* Result and the message of the line after it are in the queue
C9_Witness ==
    /\ \E i \in IndexFields, f \in ScoreFields :
          /\ ~(i.ok /\ f.ok)
          /\ peerLog = << ResLine(i.text, f.text), L_DBG >>
    /\ Len(responses) = 2
    /\ responses[1] = [PipeResponse EXCEPT !.type = "RES"]
    /\ responses[1].index = -1
    /\ responses[1].score = 0
    /\ responses[2].type = "DBG"

(***************************************************************************)
(* C10.  A well-formed TRIG line of each layout (shout, power, weapon /    *)
(* spell / potion, any other kind) is enqueued as a Trigger that carries   *)
(* the line's field values, its text being the rest of the line after the  *)
(* score field.                                                            *)
(***************************************************************************)
C10_TrigDecodedByKind ==
    [][DecodesLine =>
        \A f \in GoodScores, t \in Texts :
            LET trig == [PipeResponse EXCEPT !.type = "TRIG", !.score = f.val,
                                             !.trigText = t]
            IN  /\ \A pl \in Plugins, id \in FormIds, pw \in PowerFields :
                      NextLine = TrigShoutLine(pl, id, pw.text, f.text, t) =>
                          Enqueued([trig EXCEPT !.trigKind = K_shout,
                                                !.shoutPlugin = pl,
                                                !.shoutFormID = id,
                                                !.shoutPower = pw.val])
                /\ \A id \in FormIds :
                      NextLine = TrigFormLine(K_power, id, f.text, t) =>
                          Enqueued([trig EXCEPT !.trigKind = K_power,
                                                !.powerFormID = id])
                /\ \A k \in ItemKinds, id \in FormIds :
                      NextLine = TrigFormLine(k, id, f.text, t) =>
                          Enqueued([trig EXCEPT !.trigKind = k,
                                                !.itemFormID = id])
                /\ \A k \in OtherKinds :
                      NextLine = TrigOtherLine(k, f.text, t) =>
                          Enqueued([trig EXCEPT !.trigKind = k])]_vars

(***************************************************************************)
(* C11.  Every received line that begins with TRIG| enqueues exactly one   *)
(* Trigger; when a field is missing or a number does not parse, the        *)
(* Trigger has score 0 and carries the fields decoded before that point    *)
(* (those a '|' ends), and nothing of what follows.                        *)
(***************************************************************************)
C11_TrigNeverDropped ==
    [][DecodesLine =>
         /\ StartsWith(NextLine, P_TRIG) =>
               /\ Len(responses') = Len(responses) + 1
               /\ responses'[Len(responses')].type = "TRIG"
               /\ SubSeq(responses', 1, Len(responses)) = responses
         /\ \A c \in TrigShortCases \cup TrigBadNumberCases :
               NextLine = c.line =>
                   (c.msg.score = 0 /\ Enqueued(c.msg))]_vars

\* a shout line whose score does not parse was received: its Trigger is in
\* the queue with plugin, form ID and power, score 0 and no text
C11_Witness ==
    /\ \E c \in TrigBadNumberCases :
          /\ peerLog = << c.line, L_DBG >>
          /\ c.msg.shoutPower = 2
          /\ Len(responses) = 2
          /\ responses[1] = c.msg
    /\ responses[1].score = 0
    /\ responses[1].trigText = <<>>
    /\ responses[2].type = "DBG"

(***************************************************************************)
(* What is observed of a written line: its fields, and the lines a step    *)
(* has written.                                                            *)
(***************************************************************************)
RECURSIVE Fields(_)
\* the fields of a line, the text between its '|' characters
Fields(s) ==
    LET p == Find(s, Bar, 0)
    IN  IF p = -1 THEN << s >>
        ELSE << Substr(s, 0, p) >> \o Fields(SubstrFrom(s, p + 1))

\* the lines the step has written
Written == SubSeq(wire', Len(wire) + 1, Len(wire'))

\* a text with a space for every CR and LF, and with a space for every
\* CR, LF and '|'
Blanked(s) == [i \in 1..Len(s) |-> IF s[i] \in {CR, LF} THEN " " ELSE s[i]]
BlankedNoBar(s) ==
    [i \in 1..Len(s) |-> IF s[i] \in {CR, LF, Bar} THEN " " ELSE s[i]]

\* the type tags and the form IDs of a call's entries, in the order
\* shouts, powers, weapons, spells, potions
FavTags(f) ==
    [i \in 1..Len(f.shouts) |-> <<"S", "H", "O", "U", "T">>]
    \o [i \in 1..Len(f.powers) |-> <<"P", "O", "W", "E", "R">>]
    \o [i \in 1..Len(f.weapons) |-> <<"W", "E", "A", "P", "O", "N">>]
    \o [i \in 1..Len(f.spells) |-> <<"S", "P", "E", "L", "L">>]
    \o [i \in 1..Len(f.potions) |-> <<"P", "O", "T", "I", "O", "N">>]
FavIds(f) ==
    [i \in 1..Len(f.shouts) |-> f.shouts[i].formIdHex]
    \o [i \in 1..Len(f.powers) |-> f.powers[i].formIdHex]
    \o [i \in 1..Len(f.weapons) |-> f.weapons[i].formIdHex]
    \o [i \in 1..Len(f.spells) |-> f.spells[i].formIdHex]
    \o [i \in 1..Len(f.potions) |-> f.potions[i].formIdHex]

\* lines is FAV|BEGIN, one line for each entry of f with the entry's tag
\* and form ID, in order, and FAV|END
IsBatchOf(lines, f) ==
    /\ Len(lines) = Len(FavTags(f)) + 2
    /\ lines[1] = <<"F", "A", "V", "|", "B", "E", "G", "I", "N">>
    /\ lines[Len(lines)] = <<"F", "A", "V", "|", "E", "N", "D">>
    /\ \A i \in 1..Len(FavTags(f)) :
          LET fs == Fields(lines[i + 1])
              shout == i <= Len(f.shouts)
          IN  /\ Len(fs) = IF shout THEN 6 ELSE 4
              /\ fs[1] = <<"F", "A", "V">>
              /\ fs[2] = FavTags(f)[i]
              /\ fs[IF shout THEN 4 ELSE 3] = Blanked(FavIds(f)[i])

(***************************************************************************)
(* C12.  A favorites batch that is written whole is FAV|BEGIN, one line    *)
(* for each entry of one SendAllFavorites call, tagged with the entry's    *)
(* type, in the order shouts, powers, weapons, spells, potions and in the  *)
(* caller's order inside each list, and FAV|END, with no other line in     *)
(* between.                                                                *)
(***************************************************************************)
C12_FavoritesBatchShape ==
    [][(/\ shot'["favorites"].nTx > shot["favorites"].nTx
        /\ Value(shot'["favorites"].lastTx).ok)
       => /\ \E f \in FavInputs : IsBatchOf(Written, f)
          /\ \E n \in DOMAIN shot["favorites"].sets :
                Written = shot["favorites"].sets[n]]_vars

\* the batch of a call with a shout, two powers and a spell is on the wire
C12_Witness ==
    /\ shot["favorites"].nTx = 1
    /\ Value(shot["favorites"].lastTx).ok
    /\ IsBatchOf(Value(shot["favorites"].lastTx).lines, MoreFavorites)
    /\ IsBatchOf(CycleLines, MoreFavorites)

\* the fields prescribed for the entry lines of the favorites inputs
ShoutEntryFields(f) ==
    { << <<"F", "A", "V">>, <<"S", "H", "O", "U", "T">>,
         BlankedNoBar(f.shouts[i].plugin), Blanked(f.shouts[i].formIdHex),
         BlankedNoBar(f.shouts[i].name), BlankedNoBar(f.shouts[i].editorID) >> :
          i \in DOMAIN f.shouts }
ItemEntryFields(f) ==
    LET es == f.powers \o f.weapons \o f.spells \o f.potions
    IN  { << <<"F", "A", "V">>, FavTags(f)[Len(f.shouts) + i],
             Blanked(es[i].formIdHex), BlankedNoBar(es[i].name) >> :
              i \in DOMAIN es }
FavEntryFields ==
    UNION { ShoutEntryFields(f) \cup ItemEntryFields(f) : f \in FavInputs }

IsFavEntryLine(l) ==
    /\ StartsWith(l, <<"F", "A", "V", "|">>)
    /\ l # <<"F", "A", "V", "|", "B", "E", "G", "I", "N">>
    /\ l # <<"F", "A", "V", "|", "E", "N", "D">>

(***************************************************************************)
(* C13.  No line written holds a CR or an LF, so each WriteLine emits one  *)
(* protocol line: the language code, the option texts and every favorites  *)
(* field are written with a space for each CR and LF, and the plugin, name *)
(* and editor-ID fields of a favorites line also with a space for each     *)
(* '|', so a SHOUT line has six fields and every other entry line four.    *)
(***************************************************************************)
C13_Sanitized ==
    \A n \in DOMAIN wire :
        LET l == wire[n]
        IN  /\ \A i \in DOMAIN l : l[i] # CR /\ l[i] # LF
            /\ IsLangLine(l) =>
                  \E c \in LangInputs : l = <<"L", "A", "N", "G", "|">> \o Blanked(c)
            /\ StartsWith(l, <<"O", "P", "T", "|">>) =>
                  \E o \in OptionInputs : \E k \in DOMAIN o :
                      l = <<"O", "P", "T", "|">> \o Blanked(o[k])
            /\ IsFavEntryLine(l) =>
                  /\ Fields(l) \in FavEntryFields
                  /\ Len(Fields(l)) = IF Fields(l)[2] = <<"S", "H", "O", "U", "T">>
                                      THEN 6 ELSE 4

\* lines were written whose fields held a CR, an LF or a '|': a language
\* code, a shout entry and a spell entry
C13_Witness ==
    /\ \E n \in DOMAIN wire : wire[n] = <<"L", "A", "N", "G", "|", "r", " ", "u">>
    /\ \E n \in DOMAIN wire :
          Fields(wire[n]) = << <<"F", "A", "V">>, <<"S", "H", "O", "U", "T">>,
                               <<"D", " ">>, <<"0", "x", "4">>,
                               <<"Y", " ", "o", "l">>, <<"T", " ">> >>
    /\ \E n \in DOMAIN wire :
          Fields(wire[n]) = << <<"F", "A", "V">>, <<"S", "P", "E", "L", "L">>,
                               <<"0", "x", "7", " ">>, <<" ", "d">> >>

(***************************************************************************)
(* C14: the Connection Event Cell.                                         *)
(***************************************************************************)
\* a step in which ConsumeConnectionEvent() was called
EventConsumed ==
    \/ consumer'.event # consumer.event
    \/ consumer'.eventCalls # consumer.eventCalls
    \/ connEvent # None /\ connEvent' = None

\* C14: the cell holds one value, the last event the engine wrote: a change
\* of the connection state writes its event over whatever the cell held,
\* so that a cell that is not empty tells the present connection state;
\* ConsumeConnectionEvent returns what the cell held and leaves it empty,
\* and returns empty when no event was written since the last call
C14_EventCell ==
    [][/\ connected' # connected => connEvent' = Some(connected')
       /\ connEvent' # None => connEvent' = Some(connected')
       /\ EventConsumed =>
             /\ consumer'.event = << connEvent >>
             /\ connEvent' = None
             /\ connected' = connected]_vars

\* the first call of ConsumeConnectionEvent came after a Connected and a
\* Disconnected event were written: it returned the Disconnected event only
\* and left the cell empty
C14_Witness ==
    /\ consumer.eventCalls = 1
    /\ consumer.event = << Some(FALSE) >>
    /\ connEvent = None
    /\ ~connected

\* a second call with no event in between returned empty
C14_SecondEmpty ==
    /\ consumer.eventCalls = 2
    /\ consumer.event = << None >>
    /\ connEvent = None
    /\ budget.connects = 1
    /\ connected

(***************************************************************************)
(* C15: ConsumeLastResponse.                                               *)
(***************************************************************************)
\* a step in which ConsumeLastResponse() was called
ResponseConsumed ==
    \/ consumer'.resp # consumer.resp
    \/ consumer'.taken # consumer.taken
    \/ Len(responses') < Len(responses)

\* the messages of the first n lines the companion wrote, in their order
RECURSIVE MessagesOf(_, _)
MessagesOf(lines, n) ==
    IF n = 0 THEN <<>>
    ELSE LET line == lines[n]
             msg == DecodeLine(line)
         IN  MessagesOf(lines, n - 1)
             \o (IF HasValue(msg) THEN << Value(msg) >> ELSE <<>>)

\* the messages of the lines the engine has received and decoded
ReceivedMessages ==
    MessagesOf(peerLog, Len(peerLog) - CountLF(inbound) - CountLF(recvBuf))
\* the same in the state a step leads to
ReceivedMessagesNext ==
    MessagesOf(peerLog',
               Len(peerLog') - CountLF(inbound') - CountLF(recvBuf'))

\* C15: a call of ConsumeLastResponse on an empty queue returns empty and
\* changes nothing; on a queue that is not empty it removes and returns the
\* oldest message; so the messages the consumer got, followed by those still
\* queued, are the messages of the lines received, in the order of the
\* lines and each once (fewer than 128 are queued here, none is evicted)
C15_PopOldest ==
    [][/\ ResponseConsumed =>
             IF responses = <<>>
             THEN /\ consumer'.resp = << None >>
                  /\ responses' = <<>>
                  /\ consumer'.taken = consumer.taken
             ELSE /\ consumer'.resp = << Some(responses[1]) >>
                  /\ responses' = Tail(responses)
                  /\ consumer'.taken = consumer.taken \o << responses[1] >>
       /\ consumer'.taken \o responses' = ReceivedMessagesNext]_vars

\* the consumer got the TRIG message and then the DBG message of the two
\* lines received, and its next call found the queue empty
C15_Witness ==
    /\ Len(peerLog) = 2
    /\ StartsWith(peerLog[1], P_TRIG)
    /\ Len(consumer.taken) = 2
    /\ consumer.taken[1].type = "TRIG"
    /\ consumer.taken[2].type = "DBG"
    /\ consumer.taken = ReceivedMessages
    /\ consumer.resp = << None >>
    /\ responses = <<>>

(***************************************************************************)
(* C16: shutdown.                                                          *)
(***************************************************************************)
\* Stop() was called and has returned, and Start() was not called since
Stopped == ctl = "idle" /\ pc = "off" /\ budget.stops > 0

\* C16: after Stop() is called the engine thread leaves its loop and
\* Stop()'s join returns in the end; and once Stop() has returned (until
\* Start() is called again) no event is written to the Connection Event
\* Cell: the cell changes only by being emptied
C16_Shutdown ==
    /\ (ctl = "joining") ~> Stopped
    /\ [][Stopped => (connEvent' = connEvent \/ connEvent' = None)]_vars

\* Stop() has returned after the engine had connected; the thread wrote its
\* Connected event after Stop() had cleared _connected, and no event since
C16_Witness ==
    /\ Stopped
    /\ ~running
    /\ budget.connects = 1
    /\ connected
    /\ connEvent = Some(TRUE)

(***************************************************************************)
(* C17: the order of transmission within a service cycle.                  *)
(***************************************************************************)
\* the CFG names in the order the items are to be written
TxCfgNames ==
    << <<"O", "P", "E", "N">>,
       <<"C", "L", "O", "S", "E">>,
       <<"S", "H", "O", "U", "T", "S">>,
       <<"D", "E", "B", "U", "G">>,
       <<"S", "A", "V", "E", "_", "W", "A", "V">>,
       <<"D", "I", "A", "L", "O", "G", "U", "E", "_",
         "S", "E", "L", "E", "C", "T">>,
       <<"W", "E", "A", "P", "O", "N", "S">>,
       <<"S", "P", "E", "L", "L", "S">>,
       <<"P", "O", "W", "E", "R", "S">>,
       <<"P", "O", "T", "I", "O", "N", "S">> >>

\* the place of a written line's item in the order: 1 language, 2 options
\* batch, 3 close signal, 4 favorites batch, 5 general listen toggle,
\* 6..15 the CFG toggles, 16 the shout-listen toggle; 0 for any other line
TxRank(l) ==
    IF StartsWith(l, <<"L", "A", "N", "G", "|">>) THEN 1
    ELSE IF \/ StartsWith(l, <<"O", "P", "E", "N", "|">>)
            \/ StartsWith(l, <<"O", "P", "T", "|">>)
            \/ l = <<"E", "N", "D">> THEN 2
    ELSE IF l = <<"C", "L", "O", "S", "E">> THEN 3
    ELSE IF StartsWith(l, <<"F", "A", "V", "|">>) THEN 4
    ELSE IF StartsWith(l, <<"L", "I", "S", "T", "E", "N", "|",
                            "S", "H", "O", "U", "T", "S", "|">>) THEN 16
    ELSE IF StartsWith(l, <<"L", "I", "S", "T", "E", "N", "|">>) THEN 5
    ELSE IF \E i \in DOMAIN TxCfgNames :
               StartsWith(l, <<"C", "F", "G", "|">> \o TxCfgNames[i] \o <<"|">>)
         THEN 5 + (CHOOSE i \in DOMAIN TxCfgNames :
               StartsWith(l, <<"C", "F", "G", "|">> \o TxCfgNames[i] \o <<"|">>))
    ELSE 0

\* C17: the lines written in one service cycle are in the order language,
\* options batch, close signal, favorites batch, general listen toggle, the
\* CFG toggles OPEN .. POTIONS, shout-listen toggle, whatever the order in
\* which the producers set the items; only the lines of one batch share a
\* place
C17_FixedOrder ==
    /\ \A n \in DOMAIN wire : TxRank(wire[n]) \in 1..16
    /\ \A i, j \in DOMAIN CycleLines :
          i < j =>
             /\ TxRank(CycleLines[i]) <= TxRank(CycleLines[j])
             /\ TxRank(CycleLines[i]) = TxRank(CycleLines[j])
                   => TxRank(CycleLines[i]) \in {2, 4}

\* one cycle wrote the toggles CFG|DEBUG and CFG|POTIONS, in this order
C17_Witness ==
    /\ Len(CycleLines) = 2
    /\ TxRank(CycleLines[1]) = 9
    /\ TxRank(CycleLines[2]) = 15

\* one cycle wrote an options batch and then the general listen toggle
C17_BatchThenListen ==
    /\ Len(CycleLines) = 5
    /\ TxRank(CycleLines[1]) = 2
    /\ TxRank(CycleLines[4]) = 2
    /\ TxRank(CycleLines[5]) = 5

(***************************************************************************)
(* C18: lastSent while the client is not connected.                        *)
(***************************************************************************)
\* C18: in every state where the client is not connected, whatever ended
\* the connection (a failed write, a failed read, or Stop()), the lastSent
\* value of the language and of every CFG toggle is unset
C18_LastSentUnsetWhenDisconnected ==
    ~connected =>
        /\ lastSentGameLang = None
        /\ \A c \in CfgIds : lastSentCfg[c] = None

(***************************************************************************)
(* C19: when a sticky toggle is written.                                   *)
(***************************************************************************)
\* the step ends a transmit block in which no write failed
BlockCompleted == pc = "tx" /\ pc' = "recv"

\* C19: a line of a sticky toggle is written only when the toggle has a
\* desired value and its lastSent is unset or differs from it, the line
\* carries the desired value, and with it lastSent becomes desired; lastSent
\* gets a value in no other way; and a transmit block that ends without a
\* failed write leaves no toggle with a desired value that differs from its
\* lastSent.  So a toggle whose desired value was set again to the value
\* already sent is not written
C19_StickyDueRule ==
    [][/\ \A n \in DOMAIN Written :
             /\ IsLangLine(Written[n]) =>
                   /\ HasValue(desiredGameLang)
                   /\ lastSentGameLang # desiredGameLang
                   /\ Written[n] = <<"L", "A", "N", "G", "|">>
                                      \o Value(desiredGameLang)
                   /\ lastSentGameLang' = desiredGameLang
             /\ \A c \in CfgIds :
                   StartsWith(Written[n], S_CFG \o CfgOrder[c] \o <<Bar>>) =>
                      /\ HasValue(desiredCfg[c])
                      /\ lastSentCfg[c] # desiredCfg[c]
                      /\ Written[n] = S_CFG \o CfgOrder[c] \o <<Bar>>
                            \o (IF Value(desiredCfg[c]) THEN <<"1">> ELSE <<"0">>)
                      /\ lastSentCfg'[c] = desiredCfg[c]
       /\ (lastSentGameLang' # lastSentGameLang /\ lastSentGameLang' # None) =>
             /\ lastSentGameLang' = desiredGameLang
             /\ \E n \in DOMAIN Written : IsLangLine(Written[n])
       /\ \A c \in CfgIds :
             (lastSentCfg'[c] # lastSentCfg[c] /\ lastSentCfg'[c] # None) =>
                /\ lastSentCfg'[c] = desiredCfg[c]
                /\ \E n \in DOMAIN Written :
                      StartsWith(Written[n], S_CFG \o CfgOrder[c] \o <<Bar>>)
       /\ BlockCompleted =>
             /\ HasValue(desiredGameLang) => lastSentGameLang = desiredGameLang
             /\ \A c \in CfgIds :
                   HasValue(desiredCfg[c]) => lastSentCfg[c] = desiredCfg[c]]_vars

\* CFG|SHOUTS was set three times, the last time to the value sent before,
\* and written once: the second cycle of the connection wrote nothing
C19_Witness ==
    /\ budget.sets = MaxSets
    /\ desiredGameLang = None
    /\ desiredCfg[CfgShouts] = Some(TRUE)
    /\ lastSentCfg[CfgShouts] = Some(TRUE)
    /\ budget.connects = 1
    /\ wire = << S_CFG \o CfgOrder[CfgShouts] \o <<Bar, "1">> >>
    /\ cycleNo = 2
    /\ CycleLines = <<>>
    /\ pc = "recv"

\* a write of a due toggle failed: lastSent stays unset
C19_FailedWrite ==
    /\ pc = "disconnect"
    /\ lastFail \in WriteFailKinds
    /\ HasValue(desiredGameLang)
    /\ lastSentGameLang = None
    /\ wire = <<>>

(***************************************************************************)
(* C20: a failed write ends the service cycle.                             *)
(***************************************************************************)
\* the step is a WriteLine that fails
WriteFails == budget'.ioFails > budget.ioFails /\ lastFail' \in WriteFailKinds

\* a write has failed and the teardown has not been done yet
AfterWriteFail == lastFail \in WriteFailKinds

\* C20: a failed write leaves the transmit block for the teardown: the
\* items other than the one that failed keep their state (nothing is
\* cleared or recorded but the batch whose write failed); after it, and
\* until the teardown is done, no line is written and nothing is read or
\* decoded, and the engine's next step is the teardown, which leaves the
\* Outbound Mailbox and the desired values as they are
C20_FailedWriteEndsCycle ==
    [][/\ WriteFails =>
             /\ pc = "tx"
             /\ pc' = "disconnect"
             /\ sendMutex' = "free"
             /\ IsPrefix(wire, wire')
             /\ pendingClose' = pendingClose
             /\ pendingListen' = pendingListen
             /\ pendingListenVoiceHandle' = pendingListenVoiceHandle
             /\ pendingOptions' = pendingOptions
                   \/ pendingFavorites' = pendingFavorites
             /\ UNCHANGED <<desiredVars, lastSentVars, recvBuf, responses,
                            connected, pipe>>
       /\ AfterWriteFail =>
             /\ pc = "disconnect"
             /\ UNCHANGED <<wire, recvBuf, responses>>
             /\ pc' # pc =>
                   /\ pc' = "backoff"
                   /\ ~connected'
                   /\ pipe' = 0
                   /\ connEvent' = Some(FALSE)
                   /\ UNCHANGED <<mailboxVars, desiredVars>>]_vars

\* the write of the close signal failed; the shout-listen toggle, which
\* comes later in the block, is still pending, and nothing was written
C20_Witness ==
    /\ AfterWriteFail
    /\ pc = "disconnect"
    /\ pendingClose
    /\ HasValue(pendingListenVoiceHandle)
    /\ CycleLines = <<>>
    /\ connected

\* the teardown after a failed write of a favorites batch is done, the
\* general listen toggle is still pending
C20_TornDown ==
    /\ pc = "backoff"
    /\ ~connected
    /\ shot["favorites"].lastTx # None
    /\ ~Value(shot["favorites"].lastTx).ok
    /\ HasValue(pendingListen)

(***************************************************************************)
(* C21: the backoff sleep after a teardown.                                *)
(***************************************************************************)
\* the step tears the connection down
TearsDown == connected /\ ~connected'

\* C21: after every teardown of the connection, whether a write failed or
\* a peek or read failed, the engine is at the backoff sleep of one second,
\* and it leaves that sleep only for the test at the top of its loop, where
\* the next connect attempt is made
C21_BackoffAfterDisconnect ==
    [][/\ TearsDown => pc' = "backoff"
       /\ (pc = "backoff" /\ pc' # pc) => pc' = "top"]_vars

(***************************************************************************)
(* C22: the idle sleep at the end of a service cycle.                      *)
(***************************************************************************)
\* the step ends a service cycle: ProcessIncoming returns without a
\* teardown; from "recv" when no byte was available, from "decode" after a
\* read
CycleEnds == pc \in {"recv", "decode"} /\ pc' \in {"top", "idle"}

\* C22: a service cycle is followed by the idle sleep if and only if it
\* wrote no line and read no byte; otherwise the engine goes to the top of
\* its loop at once
C22_IdleSleepRule ==
    [][CycleEnds =>
          (pc' = "idle" <=> (CycleLines = <<>> /\ pc = "recv"))]_vars

(***************************************************************************)
(* C23: one reset and one event for each disconnect.                       *)
(***************************************************************************)
\* the engine is at a call of HandleDisconnect() and the step makes it
EntersHandleDisconnect ==
    pc \in {"disconnect", "recv_disconnect"} /\ pc' # pc

\* C23: every step that takes the client from connected to not connected
\* clears every lastSent value and writes a Disconnected event; a lastSent
\* value is cleared and a Disconnected event is written in no other step;
\* and HandleDisconnect entered with the flag false and the handle null
\* changes nothing and writes no event
C23_OneResetOneEvent ==
    [][/\ TearsDown =>
             /\ lastSentGameLang' = None
             /\ \A c \in CfgIds : lastSentCfg'[c] = None
             /\ connEvent' = Some(FALSE)
       /\ (connEvent' = Some(FALSE) /\ connEvent # Some(FALSE)) => TearsDown
       /\ (lastSentGameLang' = None /\ lastSentGameLang # None) => TearsDown
       /\ \A c \in CfgIds :
             (lastSentCfg'[c] = None /\ lastSentCfg[c] # None) => TearsDown
       /\ (EntersHandleDisconnect /\ ~connected /\ pipe = 0) =>
             UNCHANGED <<connected, pipe, chanOpen, lastSentVars,
                         connEvent>>]_vars

(***************************************************************************)
(* C24: a one-shot command is no longer pending once the engine has taken  *)
(* it for transmission.                                                    *)
(***************************************************************************)
\* the engine handles the next due item of the transmit block in this step
\* (the setters wait for _sendMutex meanwhile)
HandlesItem ==
    /\ pc = "tx"
    /\ NextDue(txPos) # 0
    /\ (txPos' # txPos \/ pc' # pc)

\* C24: when the engine has handled an options batch, a close signal or a
\* favorites batch, the command is not pending any more, whether its
\* writes succeeded or one of them failed
C24_OneShotClearedWhenConsumed ==
    [][HandlesItem =>
          LET b == BlockOrder[NextDue(txPos)]
          IN  /\ b.kind = "options" => pendingOptions' = None
              /\ b.kind = "close" => pendingClose' = FALSE
              /\ b.kind = "favorites" => pendingFavorites' = None]_vars

(***************************************************************************)
(* C25: the framing of an options batch.                                   *)
(***************************************************************************)
IsOpenLine(l) == StartsWith(l, <<"O", "P", "E", "N", "|">>)
IsOptLine(l) == StartsWith(l, <<"O", "P", "T", "|">>)
IsEndLine(l) == l = <<"E", "N", "D">>

\* line number k after the OPEN line of a batch of the options o
BatchLine(o, k) ==
    IF k <= Len(o) THEN <<"O", "P", "T", "|">> \o Blanked(o[k])
    ELSE <<"E", "N", "D">>

\* the lines from place i of the wire on are the batch of the options o,
\* or its leading part when the wire ends before the batch does
BatchAt(i, o) ==
    /\ wire[i] = <<"O", "P", "E", "N", "|">> \o to_string(Len(o))
    /\ \A k \in 1..(Len(o) + 1) :
          i + k <= Len(wire) => wire[i + k] = BatchLine(o, k)

\* the batch that begins at place i is written to its END line
BatchCompleteAt(i, o) == BatchAt(i, o) /\ i + Len(o) + 1 <= Len(wire)

\* C25: on every connection an OPEN|n line is followed by the n OPT lines
\* of the options a producer passed, in their order, and by END, with no
\* other line between them; every OPT and END line is a line of such a
\* batch begun on the same connection; and a batch stops short of its END
\* only at the end of what was written, when a write has failed
C25_OptionsFraming ==
    /\ \A i \in DOMAIN wire :
          IsOpenLine(wire[i]) =>
             \E o \in OptionInputs :
                /\ BatchAt(i, o)
                /\ (connected /\ pc # "disconnect") => BatchCompleteAt(i, o)
    /\ \A j \in DOMAIN wire :
          (IsOptLine(wire[j]) \/ IsEndLine(wire[j])) =>
             \E i \in 1..(j - 1), o \in OptionInputs :
                /\ BatchAt(i, o)
                /\ j <= i + Len(o) + 1

\* a batch of two options is on the wire, from OPEN|2 to END, and a line
\* of another item after it
C25_Witness ==
    /\ Len(wire) = 5
    /\ \E o \in OptionInputs : Len(o) = 2 /\ BatchCompleteAt(1, o)
    /\ wire[1] = <<"O", "P", "E", "N", "|", "2">>
    /\ IsOptLine(wire[2])
    /\ IsOptLine(wire[3])
    /\ IsEndLine(wire[4])
    /\ ~IsOptLine(wire[5]) /\ ~IsEndLine(wire[5]) /\ ~IsOpenLine(wire[5])

\* a batch was cut short by a failed write after its OPEN and an OPT line;
\* the next connection has served a cycle and carries no line of it
C25_NotResumed ==
    /\ Reconnected
    /\ shot["options"].lastTx # None
    /\ ~Value(shot["options"].lastTx).ok
    /\ Len(Value(shot["options"].lastTx).lines) = 2
    /\ wire # <<>>
    /\ \A j \in DOMAIN wire : ~IsOptLine(wire[j]) /\ ~IsEndLine(wire[j])
    /\ pc = "recv"

(***************************************************************************)
(* C26: which lines enqueue a message.                                     *)
(***************************************************************************)
\* the type of message a line is to enqueue, or "" for none
LineType(l) ==
    IF StartsWith(l, <<"R", "E", "S", "|">>) THEN "RES"
    ELSE IF StartsWith(l, <<"T", "R", "I", "G", "|">>) THEN "TRIG"
    ELSE IF StartsWith(l, <<"D", "B", "G", "|">>) THEN "DBG"
    ELSE ""

\* C26: a line that begins with RES|, TRIG| or DBG| appends exactly one
\* message of that type to the Response Queue, and the message of a DBG
\* line has all that follows the prefix as its text; any other line leaves
\* the queue as it is; and nothing but the decoding of a line appends a
\* message
C26_Classification ==
    [][/\ DecodesLine =>
             IF LineType(NextLine) = "" THEN responses' = responses
             ELSE /\ Len(responses') = Len(responses) + 1
                  /\ SubSeq(responses', 1, Len(responses)) = responses
                  /\ responses'[Len(responses')].type = LineType(NextLine)
                  /\ LineType(NextLine) = "DBG" =>
                        NextLine = <<"D", "B", "G", "|">>
                                     \o responses'[Len(responses')].trigText
       /\ Len(responses') > Len(responses) => DecodesLine]_vars

\* the line DBG|a|b was decoded: its message has the text a|b
C26_Witness ==
    /\ peerLog = << <<"D", "B", "G", "|", "a", "|", "b">>, L_DBG >>
    /\ Len(responses) = 2
    /\ responses[1].type = "DBG"
    /\ responses[1].trigText = <<"a", "|", "b">>
    /\ responses[2].trigText = <<"k">>

\* the line dbg|k and the DBG line after it were decoded: one message
C26_OtherLine ==
    /\ peerLog = << <<"d", "b", "g", "|", "k">>, L_DBG >>
    /\ inbound = <<>>
    /\ recvBuf = <<>>
    /\ Len(responses) = 1
    /\ consumer.taken = <<>>

(***************************************************************************)
(* C27: the reassembly of lines from the chunks read.                      *)
(***************************************************************************)
\* the bytes of the given lines, each ended by a newline
StreamOf(lines) == Join([i \in 1..Len(lines) |-> lines[i] \o <<LF>>])

\* the number of lines the companion wrote that are cut off and decoded
LinesCut == Len(peerLog) - CountLF(recvBuf) - CountLF(inbound)

\* C27: however the bytes the companion wrote are split into reads, the
\* bytes of the stream are the lines cut off so far, then the bytes held
\* in _recvBuf, then the bytes not read yet: none is dropped, repeated or
\* reordered; the messages enqueued are the messages of the lines cut off,
\* in order; and when the decoding loop is over _recvBuf holds no newline,
\* only the leading bytes of the line the next reads complete
C27_ChunkingIndependent ==
    /\ LinesCut \in 0..Len(peerLog)
    /\ StreamOf(peerLog) =
          StreamOf(SubSeq(peerLog, 1, LinesCut)) \o recvBuf \o inbound
    /\ consumer.taken \o responses = MessagesOf(peerLog, LinesCut)
    /\ pc # "decode" => CountLF(recvBuf) = 0

\* the first line was read and decoded, the first bytes of the DBG line
\* after it are held in _recvBuf, and its other bytes are not read yet
C27_Witness ==
    /\ Len(peerLog) = 2
    /\ LineType(peerLog[1]) = "TRIG"
    /\ consumer.taken \o responses = MessagesOf(peerLog, 1)
    /\ recvBuf # <<>>
    /\ Len(recvBuf) < Len(L_DBG)
    /\ IsPrefix(recvBuf, L_DBG)
    /\ inbound # <<>>
    /\ pc = "recv"

\* both lines are decoded, the second one in a later cycle than the first
\* read
C27_AllDecoded ==
    /\ Len(peerLog) = 2
    /\ LinesCut = 2
    /\ Len(consumer.taken \o responses) = 2
    /\ cycleNo = 2

(***************************************************************************)
(* C28: who closes and nulls the channel handle.                           *)
(***************************************************************************)
\* the engine thread exists and has not returned from ThreadMain
EngineAlive == pc \notin {"off", "exited"}

\* C28: while the engine thread is alive, a step of the thread that calls
\* Start() and Stop() neither changes _pipe nor closes a handle: the handle
\* is closed and nulled by the engine thread only
C28_ExclusiveOwnership ==
    [][(ctl' # ctl /\ EngineAlive) =>
          (pipe' = pipe /\ chanOpen' = chanOpen)]_vars

(***************************************************************************)
(* C29: CFG|SHOUTS|1 before LISTEN|SHOUTS|1 on every connection.           *)
(***************************************************************************)
L_CFG_SHOUTS_1 ==
    <<"C", "F", "G", "|", "S", "H", "O", "U", "T", "S", "|", "1">>
L_LISTEN_SHOUTS_1 ==
    <<"L", "I", "S", "T", "E", "N", "|", "S", "H", "O", "U", "T", "S", "|", "1">>

\* C29: when a LISTEN|SHOUTS|1 line is written while the desired value of
\* the CFG|SHOUTS toggle is true, a CFG|SHOUTS|1 line was written before it
\* on the same connection, in the same or an earlier service cycle
C29_CfgBeforeShoutListen ==
    [][\A n \in DOMAIN Written :
          (/\ Written[n] = L_LISTEN_SHOUTS_1
           /\ desiredCfg[CfgShouts] = Some(TRUE))
             => \E i \in 1..(Len(wire) + n - 1) : wire'[i] = L_CFG_SHOUTS_1]_vars

(***************************************************************************)
(* The listening state after a reconnect.                                  *)
(***************************************************************************)
L_LISTEN_1 == ListenLine(TRUE)

\* LISTEN|1 has been written on the current connection
ListenOnWire == \E i \in DOMAIN wire : wire[i] = L_LISTEN_1

\* the poll thread has taken the Connected event of a connection that is
\* not the client's first one (Publish wrote it, and it is gone), and
\* general listening is active
ListenActiveAfterReconnect ==
    /\ Reconnected
    /\ connected
    /\ connEvent = None
    /\ rt.listenModeActive

\* C30: when the poll thread has taken the Connected event of a reconnect
\* while general listening is active, LISTEN|1 is written on the new
\* connection in the end, unless listening is given up first (the focus is
\* lost for the grace time, a dialogue opens, voice-open is disabled) or
\* the connection is lost again.
C30_ListenResentAfterReconnect ==
    ListenActiveAfterReconnect ~>
        (ListenOnWire \/ ~rt.listenModeActive \/ ~connected)

(***************************************************************************)
(* The engine thread is one.                                               *)
(***************************************************************************)
\* C31: at most one thread runs ThreadMain at any time, whatever Start()
\* and Stop() calls are made and however they interleave.
C31_SingleEngineThread == threads <= 1

(***************************************************************************)
(* The transmit block and the producers.                                   *)
(***************************************************************************)
\* what the mailbox holds for one-shot k
PendingOf(k) ==
    CASE k = "options" -> pendingOptions
      [] k = "close" -> IF pendingClose THEN Some(TRUE) ELSE None
      [] k = "favorites" -> pendingFavorites
      [] k = "listen" -> pendingListen
      [] k = "listenShouts" -> pendingListenVoiceHandle

\* the mailbox holds, for every one-shot, the last value set since the
\* engine took the one-shot, and nothing when none was set since
MailboxMirrorsSets ==
    \A k \in OneShots :
        IF shot[k].sets = <<>> THEN ~HasValue(PendingOf(k))
        ELSE PendingOf(k) = Some(shot[k].sets[Len(shot[k].sets)])

\* a setter call returns in this step
SetterStep == budget'.sets # budget.sets

\* C32: no setter call is interleaved with the transmit block (a setter
\* acts only while the engine is outside it, and inside it no value is
\* set); an item whose writes succeed is written whole, from the one value
\* the mailbox held; and a value set is in the mailbox until the engine
\* takes it: no clearing by the engine loses a value set after the item
\* was taken.
C32_TransmitAtomic ==
    [][/\ SetterStep =>
             (sendMutex = "free" /\ pc # "tx" /\ UNCHANGED <<engineVars, wire>>)
       /\ pc = "tx" =>
             \A k \in OneShots : Len(shot'[k].sets) <= Len(shot[k].sets)
       /\ (HandlesItem /\ pc' = "tx") =>
             Written = Lines(BlockOrder[NextDue(txPos)])
       /\ MailboxMirrorsSets
       /\ MailboxMirrorsSets']_vars

\* an options batch of two was written whole, and a batch set after the
\* engine took that one is pending
C32_Witness ==
    /\ HasValue(shot["options"].lastTx)
    /\ Value(shot["options"].lastTx).ok
    /\ Len(Value(shot["options"].lastTx).lines) = 4
    /\ shot["options"].nSet = 2
    /\ shot["options"].nCoalesced = 0
    /\ HasValue(pendingOptions)

(***************************************************************************)
(* Values set while disconnected.                                          *)
(***************************************************************************)
\* what the mailbox holds for one-shot k after the step
PendingOfNext(k) ==
    CASE k = "options" -> pendingOptions'
      [] k = "close" -> IF pendingClose' THEN Some(TRUE) ELSE None
      [] k = "favorites" -> pendingFavorites'
      [] k = "listen" -> pendingListen'
      [] k = "listenShouts" -> pendingListenVoiceHandle'

NothingPending == \A k \in OneShots : ~HasValue(PendingOf(k))

AllStickySent ==
    /\ lastSentGameLang = desiredGameLang
    /\ \A c \in CfgIds : lastSentCfg[c] = desiredCfg[c]

\* the engine leaves the transmit block of a connection's first cycle
FirstBlockLeft == cycleNo = 1 /\ pc = "tx" /\ pc' # "tx"

LangConverged == HasValue(desiredGameLang) /\ lastSentGameLang = desiredGameLang

CfgConverged(c) == HasValue(desiredCfg[c]) /\ lastSentCfg[c] = desiredCfg[c]

\* C34: while the connection stays up, a sticky toggle with a desired value
\* reaches lastSent = desired in the end (the producers set a value a
\* bounded number of times, the engine thread is scheduled fairly); and
\* from then on, as long as its desired value is not changed and the
\* connection stays up, no line of the toggle is written and lastSent stays.
C34_StickyConvergence ==
    /\ (connected /\ HasValue(desiredGameLang))
          ~> (LangConverged \/ ~connected)
    /\ (connected /\ HasValue(desiredCfg[CfgShouts]))
          ~> (CfgConverged(CfgShouts) \/ ~connected)
    /\ [][/\ (LangConverged /\ desiredGameLang' = desiredGameLang /\ connected')
                => /\ lastSentGameLang' = lastSentGameLang
                   /\ \A n \in DOMAIN Written : ~IsLangLine(Written[n])
          /\ \A c \in CfgIds :
                (CfgConverged(c) /\ desiredCfg'[c] = desiredCfg[c] /\ connected')
                   => /\ lastSentCfg'[c] = lastSentCfg[c]
                      /\ \A n \in DOMAIN Written :
                            ~StartsWith(Written[n],
                                        S_CFG \o CfgOrder[c] \o <<Bar>>)]_vars

\* CFG|SHOUTS was set to 1, sent, set to 0 and sent; the producers have
\* stopped, and a later cycle of the same connection wrote nothing
C34_Witness ==
    /\ budget.sets = MaxSets
    /\ connected
    /\ CfgConverged(CfgShouts)
    /\ wire = << S_CFG \o CfgOrder[CfgShouts] \o <<Bar, "1">>,
                 S_CFG \o CfgOrder[CfgShouts] \o <<Bar, "0">> >>
    /\ cycleNo = 2
    /\ CycleLines = <<>>
    /\ pc = "recv"

(***************************************************************************)
(* The receive buffer across a disconnect.                                 *)
(***************************************************************************)
\* C35: on a new connection, before its first service cycle (so before its
\* first read), the receive buffer is empty: no byte of an unfinished line
\* of the connection before is kept.
C35_RecvBufEmptyOnNewConnection ==
    (connected /\ cycleNo = 0) => recvBuf = <<>>

\* the second connection is up with bytes of the first one in the buffer
C35_StaleBytes ==
    /\ Reconnected
    /\ connected
    /\ cycleNo = 0
    /\ recvBuf # <<>>

(***************************************************************************)
(* The state Stop() leaves.                                                *)
(***************************************************************************)
\* C36: when Stop() has returned (and Start() has not been called since),
\* the client is disconnected: the connected flag is false and the handle
\* is null.
C36_StopLeavesDisconnected ==
    Stopped => (~connected /\ pipe = 0)

(***************************************************************************)
(* The sequence of connection events.                                      *)
(***************************************************************************)
\* C37: the events written to the Connection Event Cell alternate, starting
\* with Connected: the first, third, ... event written is Connected, the
\* second, fourth, ... is Disconnected.
C37_EventsAlternate ==
    \A i \in DOMAIN evLog : evLog[i] = (i % 2 = 1)

(***************************************************************************)
(* The three mutexes.  _respMutex and _connMutex are held for one          *)
(* assignment, push or pop (one step of the model); _sendMutex is held by  *)
(* a setter for one assignment and by the engine for the transmit block.   *)
(***************************************************************************)
\* the step takes _respMutex or _connMutex
TakesRespOrConn == responses' # responses \/ connEvent' # connEvent

\* the step is a step of the engine thread inside the transmit block
BlockStep == pc = "tx" /\ (pc' # pc \/ txPos' # txPos)

\* C38: the engine holds _sendMutex only inside the transmit block and
\* takes neither _respMutex nor _connMutex while it holds it; a setter,
\* which holds _sendMutex, takes neither; the engine is at the call of
\* HandleDisconnect, which takes _sendMutex and then _connMutex, only with
\* _sendMutex free.  So no thread waits for one of the mutexes while it
\* holds another.
C38_LockDiscipline ==
    [][/\ sendMutex = "engine" => pc = "tx"
       /\ BlockStep => ~TakesRespOrConn
       /\ SetterStep => ~TakesRespOrConn
       /\ pc' \in {"disconnect", "recv_disconnect"} => sendMutex' = "free"]_vars

\* a write of the general listen toggle has failed after two lines were
\* written in the block: the engine is at the call of HandleDisconnect with
\* the mutex released
C38_Witness ==
    /\ pc = "disconnect"
    /\ lastFail \in WriteFailKinds
    /\ sendMutex = "free"
    /\ HasValue(pendingListen)
    /\ Len(CycleLines) >= 2

(***************************************************************************)
(* The mute window and the generation of its timers.                       *)
(***************************************************************************)
\* timer i stores false to the window flag in this step
ClearsWindow(i) ==
    /\ i \in DOMAIN rt.mute.timers
    /\ rt.mute.timers[i].pc = "clear"
    /\ rt'.mute.timers[i].pc = "done"

\* C39: a timer thread that clears the window flag is the timer of the
\* most recent MuteVoiceLine call: its generation is the value of the
\* generation counter at the clearing store, and no later call has opened
\* the window.
C39_ClearedByCurrentGeneration ==
    [][\A i \in 1..MaxMuteCalls :
          ClearsWindow(i) =>
             /\ rt.mute.timers[i].gen = rt.mute.gen
             /\ ~rt.mute.opening
             /\ i = Len(rt.mute.timers)]_vars

\* the window opened by the second call is closed while the timer of that
\* call is still running: the first call's timer closed it
C39_ClosedByOlderTimer ==
    /\ Len(rt.mute.timers) = 2
    /\ rt.mute.gen = 2
    /\ ~rt.mute.window
    /\ rt.mute.timers[1].pc = "done"
    /\ rt.mute.timers[2].pc = "sleep"
    /\ rt.mute.timers[2].elapsed = 0

(***************************************************************************)
(* The dialogue selection in flight.                                       *)
(***************************************************************************)
\* the selection tasks in the main thread's queue
QueuedSelections == {i \in DOMAIN rt.tasks : rt.tasks[i] = "select"}

\* C40: at most one selection task is queued at any time, and while one is
\* queued g_selectInFlight is set, so that a further request is skipped.
C40_SingleSelectionInFlight ==
    /\ Cardinality(QueuedSelections) <= 1
    /\ QueuedSelections # {} => rt.select.inFlight

\* two selection tasks are queued, none was skipped
C40_TwoQueued ==
    /\ Cardinality(QueuedSelections) = 2
    /\ rt.select.skipped = 0

============================================================================
